---- MODULE Spec2Model ----
(***************************************************************************)
(* A model of the parts of the AI data-analysis server:                    *)
(*   - ComponentCircuitBreaker / ErrorHandler  (server/error_handler.py)   *)
(*   - ResponseManager                    (server/response_manager.py)     *)
(*   - StreamingController                (server/streaming_controller.py) *)
(*   - the /ws handler                    (server/app.py)                  *)
(*   - SerializationEngine                (server/serialization_engine.py) *)
(*   - CodeExecutor and its callers       (server/code_executor.py)        *)
(*   - FileHandler                        (server/file_handler.py)         *)
(*   - ws_endpoint of the new pipeline    (server/app_v2.py)               *)
(*   - RulesManager                       (server/rules_manager.py)        *)
(*   - LMStudioClient                     (server/lm_studio_client.py)     *)
(* Each part has its own specification (SpecBreaker, SpecHealth,           *)
(* SpecResponse, SpecReading, SpecStream, SpecWs, SpecSerialize,           *)
(* SpecExecutor, SpecPipeline, SpecProtected, SpecValidate, SpecRules,     *)
(* SpecCompletion); the variables of the other parts stay at their initial *)
(* values.                                                                 *)
(***************************************************************************)
EXTENDS Integers, Sequences, FiniteSets, TLC

VARIABLES
    \* ---- ComponentCircuitBreaker ----
    config,        \* CircuitBreakerConfig of the breaker
    breaker,       \* state, half_open_requests and the ErrorStats fields
    now,           \* time.time()
    inflight,      \* admitted calls suspended in "await func(...)"
    calls,         \* history: number of call() invocations so far
    invoked,       \* history: number of times the wrapped function was invoked
    trials,        \* history: calls admitted since the state last became RECOVERING
    trial_calls,   \* history: of those calls, how many are in flight and
                   \* how many returned successfully
    last_op,       \* history: outcome of the last breaker operation
    last_outcome,  \* history: how the last call of a wrapped function of the
                   \* server (check_health, _execute_code_safely) went
    \* ---- StreamingController.stream_field_incrementally ----
    streaming_state, \* the StreamingState the calls are made on
    sf,            \* frame of the stream_field_incrementally call in progress
    prev_call,     \* history: field, content and result of the call before
    max_len,       \* history: longest content streamed so far, per field
    stream_calls,  \* history: number of stream_field_incrementally calls
    \* ---- the /ws handler ----
    ws_pc,         \* where ws_endpoint is suspended
    field_content, \* field_content of the message being handled
    last_sent_len, \* last_sent_len of the message being handled
    execution_results, \* execution_results of the message being handled
    wire,          \* history: the events sent since the last client message
    ws_max_len,    \* history: longest content received per field since then
    chunks,        \* history: chunks taken from the generation streams
    messages,      \* history: client messages received
    \* ---- ResponseManager.process_llm_response ----
    rm_pc,         \* where process_llm_response is suspended
    buffer,        \* the ResponseBuffer of the response being processed
    processing_stats, \* ResponseManager.processing_stats
    active_buffers,   \* keys of ResponseManager.active_buffers
    recovery_attempts, \* recovery_attempts of _attempt_recovery
    yielded,       \* history: events yielded for the response, in order
    yielded_seen,  \* history: Len(history) at the time of each yield
    history,       \* history: the values assigned to buffer.state, in order
    rm_chunks,     \* history: chunks taken from the LLM generator
    last_content,  \* history: content of the last chunk taken, per field
    \* ---- SerializationEngine.serialize_value ----
    sv_pc,         \* "ready" before the call, "done" after it
    sv_input,      \* the value given to serialize_value
    sv_output,     \* the value it returned
    sv_executor,   \* the value CodeExecutor._serialize_value returned for it
    empty_truth_raises, \* the installed NumPy raises on bool(empty array)
    \* ---- CodeExecutor.execute_code and its callers ----
    current_file,  \* file_handler.current_file['dataframe'], or None
    uploaded,      \* history: the table as set_current_file loaded it
    current_path,  \* file_handler.current_file['path'], or None
    disk,          \* the files in the uploads directory
    uploaded_ext,  \* history: the extension of the last upload, or None
    ex_path,       \* history: the caller of execute_code in the last request
    ex_code,       \* history: the code of the last request
    engine_importable, \* "from validation_engine import ..." succeeds
    ex_namespace,  \* namespace of the last execution, after exec
    ex_heap,       \* the objects the namespace refers to
    allowed_modules, \* self.allowed_modules: the attributes code has set on
                   \* the module objects every namespace is given
    ex_results,    \* results of the last execution
    ex_return,     \* how the last request ended
    exec_called,   \* history: the code of the last request was given to exec
    df_seen,       \* history: the table bound to df when exec started
    df_writes,     \* history: number of executions that wrote into df
    executions,    \* history: number of requests handled
    \* ---- ws_endpoint of app_v2.py ----
    v2_pc,         \* where ws_endpoint is suspended
    v2_connected,  \* the client is still there: send_json succeeds
    v2_consumed,   \* events of the response stream_response has taken
    v2_wire,       \* history: the events sent since the last client message
    v2_messages,   \* history: client messages received
    v2_executions, \* history: for each run of the generated code during
                   \* the present response, the state the buffer was in
    v2_success,    \* what stream_response returned for the present
                   \* message, or None
    \* ---- ErrorHandler.get_system_health ----
    circuit_breakers, \* the state of each registered breaker
    overall_health,   \* 'overall_health' of the last report, or None
    \* ---- CodeExecutor.validate_code on its own ----
    vc_code,       \* the code text given to validate_code, as its lines
    vc_result,     \* is_safe as it was returned, "none" before a call
    \* ---- RulesManager ----
    rules,         \* self.rules, a list of rule mappings
    rules_file,    \* the rules of config/rules.json
    rule_ops,      \* history: number of operations so far
    \* ---- LMStudioClient.generate_structured_response ----
    lm_pc,         \* "idle", "stream" in the loop over the completion, "done"
    lm_stream,     \* what stream_completion has still to yield
    full_response, \* the text received so far, as its pieces
    partial_buffers, \* the content already yielded for each field
    lm_yielded,    \* the chunks yielded to the caller
    \* ---- which part a combined specification runs ----
    part

breakerVars == <<config, breaker, now, inflight, calls, invoked, trials,
                 trial_calls, last_op, last_outcome>>

streamVars == <<streaming_state, sf, prev_call, max_len, stream_calls>>

wsVars == <<ws_pc, field_content, last_sent_len, execution_results, wire,
            ws_max_len, chunks, messages>>

responseVars == <<rm_pc, buffer, processing_stats, active_buffers,
                  recovery_attempts, yielded, yielded_seen, history, rm_chunks,
                  last_content>>

serializeVars == <<sv_pc, sv_input, sv_output, sv_executor, empty_truth_raises>>

executorVars == <<current_file, uploaded, current_path, disk, uploaded_ext,
                 ex_path, ex_code,
                  engine_importable, ex_namespace, ex_heap, ex_results,
                  ex_return, exec_called, df_seen, df_writes,
                  executions, allowed_modules>>

pipelineVars == <<v2_pc, v2_connected, v2_consumed, v2_wire, v2_messages,
                  v2_executions, v2_success>>

healthVars == <<circuit_breakers, overall_health>>

validateVars == <<vc_code, vc_result>>

rulesVars == <<rules, rules_file, rule_ops>>

\* the parts that run on their own
completionVars == <<lm_pc, lm_stream, full_response, partial_buffers,
                    lm_yielded>>

extraVars == <<validateVars, rulesVars, completionVars>>

vars == <<breakerVars, streamVars, wsVars, responseVars, serializeVars,
          executorVars, pipelineVars, healthVars, extraVars, part>>

\* what the operations of one part leave alone
nonBreakerVars ==
    <<streamVars, wsVars, responseVars, serializeVars, executorVars,
     pipelineVars, healthVars, extraVars, part>>

nonStreamVars ==
    <<breakerVars, wsVars, responseVars, serializeVars, executorVars,
     pipelineVars, healthVars, extraVars, part>>

nonWsVars ==
    <<breakerVars, streamVars, responseVars, serializeVars, executorVars,
     pipelineVars, healthVars, extraVars, part>>

nonResponseVars ==
    <<breakerVars, streamVars, wsVars, serializeVars, executorVars,
     pipelineVars, healthVars, extraVars, part>>

nonPipelineVars ==
    <<breakerVars, streamVars, wsVars, responseVars, serializeVars,
      executorVars, healthVars, extraVars, part>>

\* what ws_endpoint of app_v2.py leaves alone besides the response
nonPipelineResponseVars ==
    <<breakerVars, streamVars, wsVars, serializeVars, executorVars,
      healthVars, extraVars, part>>

nonExecutorVars ==
    <<breakerVars, streamVars, wsVars, responseVars, serializeVars,
     pipelineVars, healthVars, extraVars, part>>

nonSerializeVars ==
    <<breakerVars, streamVars, wsVars, responseVars, executorVars,
     pipelineVars, healthVars, extraVars, part>>

nonValidateVars ==
    <<breakerVars, streamVars, wsVars, responseVars, serializeVars,
      executorVars, pipelineVars, healthVars, rulesVars, completionVars,
      part>>

nonRulesVars ==
    <<breakerVars, streamVars, wsVars, responseVars, serializeVars,
      executorVars, pipelineVars, healthVars, validateVars, completionVars,
      part>>

nonCompletionVars ==
    <<breakerVars, streamVars, wsVars, responseVars, serializeVars,
      executorVars, pipelineVars, healthVars, validateVars, rulesVars, part>>

nonHealthVars ==
    <<breakerVars, streamVars, wsVars, responseVars, serializeVars,
      executorVars, pipelineVars, extraVars, part>>

(***************************************************************************)
(* Circuit breaker: server/error_handler.py                                *)
(***************************************************************************)

\* Optional[float] = None
None == -1

\* bounds of the breaker model
MaxCalls == 8
MaxInflight == 3
MaxTime == 80
TickStep == 10

\* CircuitBreakerConfig defaults and the registered components' settings
failure_rate_num == 1
failure_rate_den == 2
max_requests_half_open == 3

\* the settings of the registered components lm_studio and code_executor
\* (seconds; max_requests_half_open and the rate threshold are the defaults)
Configs ==
    {[failure_threshold |-> 3, timeout |-> 30],
     [failure_threshold |-> 5, timeout |-> 60]}

ComponentState == {"healthy", "degraded", "failing", "circuit_open", "recovering"}

\* ComponentCircuitBreaker.__init__ with ErrorStats()
NewBreaker ==
    [state |-> "healthy",
     half_open_requests |-> 0,
     total_requests |-> 0,
     successful_requests |-> 0,
     failed_requests |-> 0,
     last_failure_time |-> None,
     consecutive_failures |-> 0,
     circuit_open_time |-> None]

\* ErrorStats.failure_rate >= config.failure_rate_threshold, in integers:
\* failed/total >= num/den; the rate is 0.0 when total_requests = 0
failure_rate_reached(b) ==
    IF b.total_requests = 0
    THEN 0 >= failure_rate_num
    ELSE b.failed_requests * failure_rate_den >= failure_rate_num * b.total_requests

\* mutant: the circuit may be retried as soon as it has opened
should_attempt_reset_NoWait(b, cfg, t) ==
    b.circuit_open_time # None

should_attempt_reset(b, cfg, t) ==
    IF b.circuit_open_time = None
    THEN FALSE
    ELSE t - b.circuit_open_time >= cfg.timeout

\* mutant: the half-open cap is not enforced
call_entry_NoCap(b, cfg, t) ==
    LET b1 == IF b.state = "circuit_open" /\ should_attempt_reset(b, cfg, t)
              THEN [b EXCEPT !.state = "recovering", !.half_open_requests = 0]
              ELSE b
    IN  IF b.state = "circuit_open" /\ ~should_attempt_reset(b, cfg, t)
        THEN [raised |-> TRUE, b |-> b]
        ELSE [raised |-> FALSE,
              b |-> [b1 EXCEPT !.half_open_requests =
                                   IF b1.state = "recovering" THEN @ + 1 ELSE @,
                               !.total_requests = @ + 1]]

\* mutant: a call is refused only above the half-open cap
call_entry_AboveCap(b, cfg, t) ==
    LET b1 == IF b.state = "circuit_open" /\ should_attempt_reset(b, cfg, t)
              THEN [b EXCEPT !.state = "recovering", !.half_open_requests = 0]
              ELSE b
    IN  IF b.state = "circuit_open" /\ ~should_attempt_reset(b, cfg, t)
        THEN [raised |-> TRUE, b |-> b]
        ELSE IF b1.state = "recovering"
                /\ b1.half_open_requests > max_requests_half_open
        THEN [raised |-> TRUE, b |-> b1]
        ELSE [raised |-> FALSE,
              b |-> [b1 EXCEPT !.half_open_requests =
                                   IF b1.state = "recovering" THEN @ + 1 ELSE @,
                               !.total_requests = @ + 1]]

\* mutant: the call is counted before the circuit is looked at
call_entry_CountsFirst(b, cfg, t) ==
    LET b0 == [b EXCEPT !.total_requests = @ + 1]
        b1 == IF b.state = "circuit_open" /\ should_attempt_reset(b, cfg, t)
              THEN [b0 EXCEPT !.state = "recovering", !.half_open_requests = 0]
              ELSE b0
    IN  IF b.state = "circuit_open" /\ ~should_attempt_reset(b, cfg, t)
        THEN [raised |-> TRUE, b |-> b0]
        ELSE IF b1.state = "recovering"
                /\ b1.half_open_requests >= max_requests_half_open
        THEN [raised |-> TRUE, b |-> b1]
        ELSE [raised |-> FALSE,
              b |-> [b1 EXCEPT !.half_open_requests =
                                   IF b1.state = "recovering" THEN @ + 1 ELSE @]]

\* ComponentCircuitBreaker.call up to "await func(...)": either raises
\* CircuitBreakerOpenError or admits the call and counts it
call_entry(b, cfg, t) ==
    LET b1 == IF b.state = "circuit_open" /\ should_attempt_reset(b, cfg, t)
              THEN [b EXCEPT !.state = "recovering", !.half_open_requests = 0]
              ELSE b
    IN  IF b.state = "circuit_open" /\ ~should_attempt_reset(b, cfg, t)
        THEN [raised |-> TRUE, b |-> b]
        ELSE IF b1.state = "recovering"
                /\ b1.half_open_requests >= max_requests_half_open
        THEN [raised |-> TRUE, b |-> b1]
        ELSE [raised |-> FALSE,
              b |-> [b1 EXCEPT !.half_open_requests =
                                   IF b1.state = "recovering" THEN @ + 1 ELSE @,
                               !.total_requests = @ + 1]]

\* mutant: a success closes the circuit from any state
record_success_AnyState(b) ==
    [b EXCEPT !.successful_requests = @ + 1,
              !.consecutive_failures = 0,
              !.state = IF b.state = "recovering"
                        THEN (IF b.half_open_requests >= max_requests_half_open
                              THEN "healthy" ELSE @)
                        ELSE "healthy"]

record_success(b) ==
    [b EXCEPT !.successful_requests = @ + 1,
              !.consecutive_failures = 0,
              !.state = IF b.state = "recovering"
                        THEN (IF b.half_open_requests >= max_requests_half_open
                              THEN "healthy" ELSE @)
                        ELSE IF b.state \in {"degraded", "failing"}
                        THEN "healthy"
                        ELSE @]

record_failure(b, cfg, t) ==
    LET b1 == [b EXCEPT !.failed_requests = @ + 1,
                        !.consecutive_failures = @ + 1,
                        !.last_failure_time = t]
    IN  IF b1.consecutive_failures >= cfg.failure_threshold
           \/ failure_rate_reached(b1)
        THEN [b1 EXCEPT !.state = "circuit_open", !.circuit_open_time = t]
        ELSE IF b1.consecutive_failures >= 2
        THEN [b1 EXCEPT !.state = "degraded"]
        ELSE IF b1.consecutive_failures >= 1
        THEN [b1 EXCEPT !.state = "failing"]
        ELSE b1

\* ErrorHandler.reset_circuit_breaker on a registered component
reset_circuit_breaker(b) ==
    [b EXCEPT !.state = "healthy",
              !.consecutive_failures = 0,
              !.circuit_open_time = None]

\* no call admitted in RECOVERING yet
NoTrials == [inflight |-> 0, succeeded |-> 0]

InitBreaker ==
    /\ config \in Configs
    /\ breaker = NewBreaker
    /\ now = 0
    /\ inflight = 0
    /\ calls = 0
    /\ invoked = 0
    /\ trials = 0
    /\ trial_calls = NoTrials
    /\ last_outcome = "None"
    /\ last_op = "none"

\* a caller enters ComponentCircuitBreaker.call and runs to the await
Call ==
    /\ calls < MaxCalls
    /\ inflight < MaxInflight
    /\ LET r == call_entry(breaker, config, now)
       IN  /\ breaker' = r.b
           /\ calls' = calls + 1
           /\ IF r.raised
              THEN /\ last_op' = "refused"
                   /\ UNCHANGED <<inflight, invoked>>
              ELSE /\ last_op' = "admitted"
                   /\ inflight' = inflight + 1
                   /\ invoked' = invoked + 1
           /\ trials' = IF r.b.state = "recovering"
                        THEN (IF breaker.state = "recovering" THEN trials ELSE 0)
                             + (IF r.raised THEN 0 ELSE 1)
                        ELSE trials
           /\ trial_calls' =
                 IF r.b.state = "recovering"
                 THEN LET started == IF breaker.state = "recovering"
                                     THEN trial_calls ELSE NoTrials
                      IN  IF r.raised THEN started
                          ELSE [started EXCEPT !.inflight = @ + 1]
                 ELSE trial_calls
    /\ UNCHANGED <<config, now, last_outcome>>
    /\ UNCHANGED nonBreakerVars

\* the awaited function of an admitted call returns (ok) or raises; the
\* call is one of the trial calls in flight or one admitted before them
AwaitReturns(ok) ==
    /\ inflight > 0
    /\ breaker' = IF ok THEN record_success(breaker)
                        ELSE record_failure(breaker, config, now)
    /\ last_op' = IF ok THEN "success" ELSE "failure"
    /\ \E is_trial \in BOOLEAN :
          /\ is_trial => trial_calls.inflight > 0
          /\ ~is_trial => inflight > trial_calls.inflight
          /\ trial_calls' =
                IF is_trial
                THEN [inflight |-> trial_calls.inflight - 1,
                      succeeded |-> trial_calls.succeeded
                                    + (IF ok THEN 1 ELSE 0)]
                ELSE trial_calls
    /\ inflight' = inflight - 1
    /\ UNCHANGED <<config, now, calls, invoked, trials>>
    /\ UNCHANGED nonBreakerVars

CallReturn ==
    /\ \E ok \in BOOLEAN : AwaitReturns(ok)
    /\ UNCHANGED last_outcome

\* what can happen to the request of LMStudioClient.check_health: the
\* status of the answer, the 10 s timeout, or no connection
ProbeOutcomes == {"status_200", "status_503", "timeout", "connection_error"}

\* LMStudioClient.check_health: every exception is caught and False is
\* returned
check_health(outcome) ==
    [raised |-> FALSE, value |-> outcome = "status_200"]

\* what can happen to the code _execute_code_safely runs: it succeeds, it
\* raises, it is refused by the validation
ExecutionOutcomes == {"executed", "code_raises", "validation_failed"}

\* _execute_code_safely: execute_code returns (success, output, results)
\* whatever happens to the code, and the mapping made of them is returned
execute_code_safely(outcome) ==
    [raised |-> FALSE, value |-> outcome = "executed"]

\* ws_endpoint of app_v2.py: the health probe made through the breaker of
\* "lm_studio" returns
CheckHealthReturns ==
    /\ config.failure_threshold = 3
    /\ \E outcome \in ProbeOutcomes :
          /\ AwaitReturns(~check_health(outcome).raised)
          /\ last_outcome' = outcome

\* _create_response_generator: the execution made through the breaker of
\* "code_executor" returns
ExecuteCodeSafelyReturns ==
    /\ config.failure_threshold = 5
    /\ \E outcome \in ExecutionOutcomes :
          /\ AwaitReturns(~execute_code_safely(outcome).raised)
          /\ last_outcome' = outcome

ResetCircuitBreaker ==
    /\ breaker' = reset_circuit_breaker(breaker)
    /\ breaker' # breaker
    /\ last_op' = "reset"
    /\ UNCHANGED <<config, now, inflight, calls, invoked, trials, trial_calls,
                   last_outcome>>
    /\ UNCHANGED nonBreakerVars

Tick ==
    /\ now + TickStep <= MaxTime
    /\ now' = now + TickStep
    /\ UNCHANGED <<config, breaker, inflight, calls, invoked, trials,
                   trial_calls, last_op, last_outcome>>
    /\ UNCHANGED nonBreakerVars

NextBreaker ==
    \/ Call
    \/ CallReturn
    \/ ResetCircuitBreaker
    \/ Tick

\* the breakers of "lm_studio" and "code_executor" as the server uses
\* them: the wrapped function is check_health or _execute_code_safely
NextProtected ==
    \/ Call
    \/ CheckHealthReturns
    \/ ExecuteCodeSafelyReturns
    \/ Tick


(***************************************************************************)
(* ErrorHandler.get_system_health: server/error_handler.py                 *)
(***************************************************************************)

\* the components _initialize_circuit_breakers registers, in the order of
\* the dictionary
Components ==
    <<"lm_studio", "code_executor", "serialization", "validation",
      "file_handler">>

\* the loop of get_system_health over the breakers k, k+1, ... of the
\* dictionary, overall being overall_health before breaker k
RECURSIVE determine_overall_health(_, _, _)
determine_overall_health(states, k, overall) ==
    IF k > Len(states)
    THEN overall
    ELSE determine_overall_health(states, k + 1,
             IF states[k] = "circuit_open"
             THEN "circuit_open"
             ELSE IF states[k] = "failing" /\ overall = "healthy"
             THEN "degraded"
             ELSE overall)

\* get_system_health()['overall_health']
get_system_health(breakers) ==
    determine_overall_health([k \in 1..Len(Components) |-> breakers[Components[k]]],
                             1, "healthy")

InitHealth ==
    /\ circuit_breakers =
          [name \in {Components[k] : k \in 1..Len(Components)} |-> "healthy"]
    /\ overall_health = "None"

\* the calls made through a breaker, or its reset, change its state
BreakerChangesState ==
    /\ part = "health"
    /\ \E name \in DOMAIN circuit_breakers, state \in ComponentState :
          /\ state # circuit_breakers[name]
          /\ circuit_breakers' = [circuit_breakers EXCEPT ![name] = state]
    /\ overall_health' = "None"
    /\ UNCHANGED nonHealthVars

\* GET /health: get_system_health is called
GetSystemHealth ==
    /\ part = "health"
    /\ overall_health' = get_system_health(circuit_breakers)
    /\ UNCHANGED circuit_breakers
    /\ UNCHANGED nonHealthVars

NextHealth ==
    \/ BreakerChangesState
    \/ GetSystemHealth


(***************************************************************************)
(* Field contents                                                          *)
(***************************************************************************)

\* A text is a sequence of characters, a character a number.  Text(n) is a
\* text of n characters and Text(m) a prefix of Text(n) for m <= n;
\* Corrected(n) has the same length as Text(n) and differs from it in its
\* second character.
Text(n) == [k \in 1..n |-> k]

Corrected(n) == [k \in 1..n |-> IF k = 2 THEN 0 ELSE k]

\* the contents a field is given: empty, a short text, a text of more than
\* one chunk, and a correction of that text
Contents == {Text(0), Text(3), Text(9), Corrected(9)}

Fields == {"initial_response", "generated_code", "result_commentary"}

Min(a, b) == IF a <= b THEN a ELSE b

\* content[pos:]
Suffix(content, pos) == SubSeq(content, pos + 1, Len(content))

\* content[i:i + size]
Slice(content, i, size) == SubSeq(content, i + 1, Min(i + size, Len(content)))

IsPrefix(s, t) == Len(s) <= Len(t) /\ s = SubSeq(t, 1, Len(s))

(***************************************************************************)
(* StreamingController.stream_field_incrementally:                         *)
(* server/streaming_controller.py                                          *)
(***************************************************************************)

\* bound: number of stream_field_incrementally calls on the StreamingState
MaxStreamCalls == 3

\* default of the chunk_size parameter
chunk_size == 8

\* StreamingState as stream_response creates it, after __post_init__
NewStreamingState ==
    [field_positions |-> [f \in Fields |-> 0],
     total_sent |-> 0,
     is_streaming |-> TRUE,
     last_event |-> "None"]

IdleFrame ==
    [pc |-> "idle", field_name |-> "None", content |-> <<>>, current_pos |-> 0,
     i |-> 0, sent |-> <<>>, total0 |-> 0, ret |-> FALSE]

NoCall == [field_name |-> "None", content |-> <<>>, ret |-> FALSE]

\* mutant: the position is set to len(content) whether or not the content
\* is longer than what was sent
stream_field_entry_NoGuard(st, field_name, content) ==
    LET current_pos == st.field_positions[field_name]
        frame == [pc |-> "returned", field_name |-> field_name,
                  content |-> content, current_pos |-> current_pos, i |-> 0,
                  sent |-> <<>>, total0 |-> st.total_sent, ret |-> TRUE]
    IN  IF Len(content) > current_pos /\ ~st.is_streaming
        THEN [st |-> st, frame |-> [frame EXCEPT !.ret = FALSE]]
        ELSE IF Len(content) > current_pos
        THEN [st |-> st, frame |-> [frame EXCEPT !.pc = "loop"]]
        ELSE [st |-> [st EXCEPT !.field_positions[field_name] = Len(content)],
              frame |-> frame]

\* stream_field_incrementally from its entry to the first await: returns
\* True when there is nothing new, False when the stream is stopped, and is
\* otherwise suspended in the send of the first chunk (pc = "loop")
stream_field_entry(st, field_name, content) ==
    LET current_pos == st.field_positions[field_name]
        frame == [pc |-> "returned", field_name |-> field_name,
                  content |-> content, current_pos |-> current_pos, i |-> 0,
                  sent |-> <<>>, total0 |-> st.total_sent, ret |-> TRUE]
    IN  IF Len(content) > current_pos /\ ~st.is_streaming
        THEN [st |-> st, frame |-> [frame EXCEPT !.ret = FALSE]]
        ELSE IF Len(content) > current_pos
        THEN [st |-> st, frame |-> [frame EXCEPT !.pc = "loop"]]
        ELSE [st |-> st, frame |-> frame]

\* mutant: the position is not updated after the loop
stream_field_resume_NoUpdate(st, fr, success) ==
    LET new_content == Suffix(fr.content, fr.current_pos)
        chunk == Slice(new_content, fr.i, chunk_size)
        st1 == [st EXCEPT !.total_sent = @ + Len(chunk)]
        fr1 == [fr EXCEPT !.sent = @ \o chunk, !.i = @ + chunk_size]
    IN  IF ~success
        THEN [st |-> st, frame |-> [fr EXCEPT !.pc = "returned", !.ret = FALSE]]
        ELSE IF fr1.i < Len(new_content)
        THEN IF ~st1.is_streaming
             THEN [st |-> st1,
                   frame |-> [fr1 EXCEPT !.pc = "returned", !.ret = FALSE]]
             ELSE [st |-> st1, frame |-> fr1]
        ELSE [st |-> st1,
              frame |-> [fr1 EXCEPT !.pc = "returned", !.ret = TRUE]]

\* stream_field_incrementally from the return of _send_safe (success) to the
\* next await or to its return
stream_field_resume(st, fr, success) ==
    LET new_content == Suffix(fr.content, fr.current_pos)
        chunk == Slice(new_content, fr.i, chunk_size)
        st1 == [st EXCEPT !.total_sent = @ + Len(chunk)]
        fr1 == [fr EXCEPT !.sent = @ \o chunk, !.i = @ + chunk_size]
    IN  IF ~success
        THEN [st |-> st, frame |-> [fr EXCEPT !.pc = "returned", !.ret = FALSE]]
        ELSE IF fr1.i < Len(new_content)
        THEN IF ~st1.is_streaming
             THEN [st |-> st1,
                   frame |-> [fr1 EXCEPT !.pc = "returned", !.ret = FALSE]]
             ELSE [st |-> st1, frame |-> fr1]
        ELSE [st |-> [st1 EXCEPT !.field_positions[fr.field_name] =
                                     Len(fr.content)],
              frame |-> [fr1 EXCEPT !.pc = "returned", !.ret = TRUE]]

InitStream ==
    /\ streaming_state = NewStreamingState
    /\ sf = IdleFrame
    /\ prev_call = NoCall
    /\ max_len = [f \in Fields |-> 0]
    /\ stream_calls = 0

\* a caller streams content for a field
StreamFieldIncrementally ==
    /\ sf.pc # "loop"
    /\ stream_calls < MaxStreamCalls
    /\ \E field_name \in Fields, content \in Contents :
          LET r == stream_field_entry(streaming_state, field_name, content)
          IN  /\ streaming_state' = r.st
              /\ sf' = r.frame
              /\ max_len' = [max_len EXCEPT ![field_name] =
                                IF Len(content) > @ THEN Len(content) ELSE @]
    /\ prev_call' = IF sf.pc = "returned"
                    THEN [field_name |-> sf.field_name, content |-> sf.content,
                          ret |-> sf.ret]
                    ELSE prev_call
    /\ stream_calls' = stream_calls + 1
    /\ UNCHANGED nonStreamVars

\* _send_safe returns: the delta was sent (True) or send_json raised (False)
SendSafeReturns ==
    /\ sf.pc = "loop"
    /\ \E success \in BOOLEAN :
          LET r == stream_field_resume(streaming_state, sf, success)
          IN  /\ streaming_state' = r.st
              /\ sf' = r.frame
    /\ UNCHANGED <<prev_call, max_len, stream_calls>>
    /\ UNCHANGED nonStreamVars

\* stop_stream, or the cleanup of stream_response
StopStream ==
    /\ streaming_state.is_streaming
    /\ streaming_state' = [streaming_state EXCEPT !.is_streaming = FALSE]
    /\ UNCHANGED <<sf, prev_call, max_len, stream_calls>>
    /\ UNCHANGED nonStreamVars

NextStream ==
    \/ StreamFieldIncrementally
    \/ SendSafeReturns
    \/ StopStream

(***************************************************************************)
(* The /ws handler: server/app.py                                          *)
(***************************************************************************)

\* bounds: chunks taken from the generation streams, client messages,
\* length of a fallback text
MaxChunks == 3
MaxMessages == 1
FallbackLen == 9

\* the ' ' that str.strip() removes
Space == 32

\* bool(text.strip())
StripNonEmpty(text) == \E k \in 1..Len(text) : text[k] # Space

\* the chunks a generation stream yields: a field with its cumulative
\* content, or a chunk for something that is not one of the three fields
Chunks ==
    [field : Fields, content : Contents]
    \cup {[field |-> "execution_results", content |-> Text(3)]}

EmptyFields == [f \in Fields |-> <<>>]

ZeroFields == [f \in Fields |-> 0]

\* the delta events of "for i in range(0, len(delta), 8): send_json(...)"
DeltaEvents(field, delta) ==
    [k \in 1..((Len(delta) + chunk_size - 1) \div chunk_size) |->
        [event |-> "delta", field |-> field,
         delta |-> Slice(delta, (k - 1) * chunk_size, chunk_size)]]

\* the three texts of _send_fallback_response, none of them a text that
\* the generation stream yields
FallbackText(field) ==
    [k \in 1..FallbackLen |->
        CASE field = "initial_response" -> 100 + k
          [] field = "generated_code" -> 200 + k
          [] OTHER -> 300 + k]

\* _send_fallback_response: the three texts as deltas, then the end event
send_fallback_response ==
    DeltaEvents("initial_response", FallbackText("initial_response"))
    \o DeltaEvents("generated_code", FallbackText("generated_code"))
    \o DeltaEvents("result_commentary", FallbackText("result_commentary"))
    \o <<[event |-> "end", final |-> [f \in Fields |-> FallbackText(f)]]>>

\* "start = last_sent_len[field]; if start < len(content): send content[start:]
\* in deltas; last_sent_len[field] = len(content)": the events sent
stream_new_part(lens, field, content) ==
    IF lens[field] < Len(content)
    THEN DeltaEvents(field, Suffix(content, lens[field]))
    ELSE <<>>

\* ... and last_sent_len afterwards
advance_last_sent_len(lens, field, content) ==
    IF lens[field] < Len(content)
    THEN [lens EXCEPT ![field] = Len(content)]
    ELSE lens

\* the loop before the end event, for one of initial_response and
\* generated_code: the rest of the content, or a replace event when the
\* lengths are equal
final_events(lens, fc, field) ==
    IF fc[field] # <<>> /\ lens[field] < Len(fc[field])
    THEN DeltaEvents(field, Suffix(fc[field], lens[field]))
    ELSE IF fc[field] # <<>> /\ Len(fc[field]) = lens[field]
    THEN <<[event |-> "replace", field |-> field, content |-> fc[field]]>>
    ELSE <<>>

final_lens(lens, fc, field) ==
    IF fc[field] # <<>> /\ lens[field] < Len(fc[field])
    THEN [lens EXCEPT ![field] = Len(fc[field])]
    ELSE lens

\* from the final loop to the end event
finish_events(lens, fc) ==
    final_events(lens, fc, "initial_response")
    \o final_events(lens, fc, "generated_code")
    \o <<[event |-> "end", final |-> fc]>>

finish_lens(lens, fc) ==
    final_lens(final_lens(lens, fc, "initial_response"), fc, "generated_code")

InitWs ==
    /\ ws_pc = "receive"
    /\ field_content = EmptyFields
    /\ last_sent_len = ZeroFields
    /\ execution_results = "None"
    /\ wire = <<>>
    /\ ws_max_len = ZeroFields
    /\ chunks = 0
    /\ messages = 0

\* receive_text returns a client message: check_health, the start event,
\* and either the fallback response or the start of the first generation
Receive ==
    /\ ws_pc = "receive"
    /\ messages < MaxMessages
    /\ messages' = messages + 1
    /\ field_content' = EmptyFields
    /\ last_sent_len' = ZeroFields
    /\ execution_results' = "None"
    /\ ws_max_len' = ZeroFields
    /\ \E lm_available \in BOOLEAN :
          IF lm_available
          THEN /\ wire' = <<[event |-> "start"],
                            [event |-> "status", field |-> "initial_response"]>>
               /\ ws_pc' = "gen1"
          ELSE /\ wire' = <<[event |-> "start"]>> \o send_fallback_response
               /\ ws_pc' = "receive"
    /\ UNCHANGED chunks
    /\ UNCHANGED nonWsVars

\* the first generation yields a chunk
Gen1Chunk ==
    /\ ws_pc = "gen1"
    /\ chunks < MaxChunks
    /\ chunks' = chunks + 1
    /\ \E c \in Chunks :
          IF c.field \in Fields
          THEN /\ field_content' = [field_content EXCEPT ![c.field] = c.content]
               /\ ws_max_len' = [ws_max_len EXCEPT ![c.field] =
                                    IF Len(c.content) > @ THEN Len(c.content) ELSE @]
               /\ IF c.field \in {"initial_response", "generated_code"}
                  THEN /\ wire' = wire \o stream_new_part(last_sent_len, c.field, c.content)
                       /\ last_sent_len' =
                             advance_last_sent_len(last_sent_len, c.field, c.content)
                  ELSE UNCHANGED <<wire, last_sent_len>>
          ELSE UNCHANGED <<field_content, ws_max_len, wire, last_sent_len>>
    /\ UNCHANGED <<ws_pc, execution_results, messages>>
    /\ UNCHANGED nonWsVars

\* an exception inside the try block while a generation is consumed: the
\* handler logs it and sends the fallback response
GenRaises ==
    /\ ws_pc \in {"gen1", "gen2"}
    /\ wire' = wire \o send_fallback_response
    /\ ws_pc' = "receive"
    /\ UNCHANGED <<field_content, last_sent_len, execution_results, ws_max_len,
                   chunks, messages>>
    /\ UNCHANGED nonWsVars

\* the first generation ends: the code, if any, is executed and the
\* commentary generation starts; without code the original commentary is
\* streamed and the response finished
Gen1Ends ==
    /\ ws_pc = "gen1"
    /\ IF StripNonEmpty(field_content["generated_code"])
       THEN /\ \E success \in BOOLEAN :
                  execution_results' = IF success THEN "success" ELSE "failure"
            /\ ws_pc' = "gen2"
            /\ UNCHANGED <<wire, last_sent_len>>
       ELSE LET commentary == field_content["result_commentary"]
                lens == advance_last_sent_len(last_sent_len, "result_commentary",
                                              commentary)
            IN  /\ wire' = wire
                           \o stream_new_part(last_sent_len, "result_commentary",
                                              commentary)
                           \o finish_events(lens, field_content)
                /\ last_sent_len' = finish_lens(lens, field_content)
                /\ ws_pc' = "receive"
                /\ UNCHANGED execution_results
    /\ UNCHANGED <<field_content, ws_max_len, chunks, messages>>
    /\ UNCHANGED nonWsVars

\* the commentary generation yields a chunk
Gen2Chunk ==
    /\ ws_pc = "gen2"
    /\ chunks < MaxChunks
    /\ chunks' = chunks + 1
    /\ \E c \in Chunks :
          IF c.field = "result_commentary"
          THEN /\ field_content' = [field_content EXCEPT ![c.field] = c.content]
               /\ ws_max_len' = [ws_max_len EXCEPT ![c.field] =
                                    IF Len(c.content) > @ THEN Len(c.content) ELSE @]
               /\ wire' = wire \o stream_new_part(last_sent_len, c.field, c.content)
               /\ last_sent_len' =
                     advance_last_sent_len(last_sent_len, c.field, c.content)
          ELSE UNCHANGED <<field_content, ws_max_len, wire, last_sent_len>>
    /\ UNCHANGED <<ws_pc, execution_results, messages>>
    /\ UNCHANGED nonWsVars

\* the commentary generation ends: the final loop and the end event
Gen2Ends ==
    /\ ws_pc = "gen2"
    /\ wire' = wire \o finish_events(last_sent_len, field_content)
    /\ last_sent_len' = finish_lens(last_sent_len, field_content)
    /\ ws_pc' = "receive"
    /\ UNCHANGED <<field_content, execution_results, ws_max_len, chunks, messages>>
    /\ UNCHANGED nonWsVars

\* the client disconnects: WebSocketDisconnect ends the handler
Disconnect ==
    /\ ws_pc # "closed"
    /\ ws_pc' = "closed"
    /\ UNCHANGED <<field_content, last_sent_len, execution_results, wire,
                   ws_max_len, chunks, messages>>
    /\ UNCHANGED nonWsVars

NextWs ==
    \/ Receive
    \/ Gen1Chunk
    \/ GenRaises
    \/ Gen1Ends
    \/ Gen2Chunk
    \/ Gen2Ends
    \/ Disconnect


(***************************************************************************)
(* ResponseManager: server/response_manager.py, with the ValidationEngine  *)
(* of server/validation_engine.py                                          *)
(***************************************************************************)

\* bounds: responses processed by the manager, chunks taken from one LLM
\* generator
MaxResponses == 2
MaxRmChunks == 3

\* max_attempts of _attempt_recovery
max_attempts == 3

\* Field contents are the Python strings themselves.  The texts: empty,
\* blank, plain, and one with a literal backslash-n.
TextValues == {"", " ", "Analyzing data", "Analyzing\\n data"}

\* The codes: empty, blank, valid, a syntax error, a dangerous operation,
\* escaped newlines and what cleaning makes of them, and stray closing
\* parentheses with what one and two rounds of cleaning make of them.
CodeValues ==
    {"", " ", "result = 1", "result = (1", "import os; os.system('x')",
     "x = 1\\ny = 2", "x = 1\ny = 2",
     "x = (1) ) ) )", "x = (1) )", "x = (1)"}

\* bool(content.strip())
strip_nonempty(content) == content \notin {"", " "}

\* ValidationEngine._has_corruption_indicators on the contents above
has_corruption_indicators(content) ==
    content \in {"Analyzing\\n data", "x = 1\\ny = 2", "x = (1) ) ) )",
                 "x = (1) )"}

\* ValidationEngine._clean_escape_sequences on the codes above
clean_escape_sequences(code) ==
    CASE code = "x = 1\\ny = 2" -> "x = 1\ny = 2"
      [] code = "x = (1) ) ) )" -> "x = (1) )"
      [] code = "x = (1) )" -> "x = (1)"
      [] OTHER -> code

\* ast.parse raises SyntaxError (and _fix_syntax_errors does not help)
syntax_error(code) == code \in {"result = (1", "x = (1) )"}

\* _validate_code_security finds a dangerous pattern
dangerous_operation(code) == code = "import os; os.system('x')"

ValidationResult(is_valid, errors, warnings, cleaned_content) ==
    [is_valid |-> is_valid, errors |-> errors, warnings |-> warnings,
     cleaned_content |-> cleaned_content]

\* ValidationEngine.validate_python_code.  A message is the sequence of its
\* parts, so that "'Code validation:' in e" is a test on the first part.
validate_python_code(code) ==
    IF ~strip_nonempty(code)
    THEN ValidationResult(TRUE, <<>>, <<>>, code)
    ELSE LET cleaned_code == IF has_corruption_indicators(code)
                             THEN clean_escape_sequences(code)
                             ELSE code
             warnings == IF cleaned_code # code
                         THEN <<(<<"Cleaned escape sequences in code">>)>>
                         ELSE <<>>
         IN  IF syntax_error(cleaned_code)
             THEN ValidationResult(FALSE, <<(<<"Syntax error">>)>>, warnings,
                                   cleaned_code)
             ELSE IF dangerous_operation(cleaned_code)
             THEN ValidationResult(FALSE,
                                   <<(<<"Dangerous operation detected">>)>>,
                                   warnings, cleaned_code)
             ELSE ValidationResult(TRUE, <<>>, warnings, cleaned_code)

\* f"Code validation: {message}" for every message of a list
code_validation(msgs) ==
    [k \in 1..Len(msgs) |-> <<"Code validation:">> \o msgs[k]]

\* "'Code validation:' in e"
is_code_validation(e) == \E k \in 1..Len(e) : e[k] = "Code validation:"

\* the corruption warning of validate_structured_response for one field
corruption_warning(field_name, content) ==
    IF has_corruption_indicators(content)
    THEN <<(<<"Potential corruption detected in", field_name>>)>>
    ELSE <<>>

\* ValidationEngine.validate_structured_response on buffer.to_dict()
validate_structured_response(response) ==
    LET code == response.generated_code
        code_result == validate_python_code(code)
        errors == IF strip_nonempty(code) /\ ~code_result.is_valid
                  THEN code_validation(code_result.errors)
                  ELSE <<>>
        warnings ==
            corruption_warning("initial_response", response.initial_response)
            \o (IF strip_nonempty(code)
                THEN code_validation(code_result.warnings)
                ELSE <<>>)
            \o corruption_warning("generated_code", code)
            \o corruption_warning("result_commentary",
                                  response.result_commentary)
    IN  ValidationResult(errors = <<>>, errors, warnings, "")

ResponseState ==
    {"initializing", "collecting", "validating", "validated", "streaming",
     "completed", "failed", "rolled_back"}

\* ResponseBuffer(); validation_results holds the entry of the key
\* 'generated_code', the only one that is read: none or one ValidationResult
NewBuffer ==
    [initial_response |-> "", generated_code |-> "", result_commentary |-> "",
     state |-> "initializing", validation_results |-> <<>>,
     errors |-> <<>>, warnings |-> <<>>, execution_results |-> "None"]

NewStats ==
    [total_responses |-> 0, successful_responses |-> 0,
     failed_responses |-> 0, rollbacks_performed |-> 0,
     validations_passed |-> 0, validations_failed |-> 0]

\* ResponseBuffer.has_code
has_code(b) == strip_nonempty(b.generated_code)

\* ResponseBuffer.to_dict
to_dict(b) ==
    [initial_response |-> b.initial_response,
     generated_code |-> b.generated_code,
     result_commentary |-> b.result_commentary]

\* the chunks an LLM generator yields: one of the three fields with a
\* content, or something else, which the collection loop ignores
LlmChunks ==
    [field : {"initial_response", "result_commentary"}, content : TextValues]
    \cup [field : {"generated_code"}, content : CodeValues]
    \cup {[field |-> "thinking", content |-> "Analyzing data"]}

\* mutant: the content of a chunk is appended to the field
collect_chunk_Appends(b, chunk) ==
    CASE chunk.field = "initial_response" ->
            [b EXCEPT !.initial_response = @ \o chunk.content]
      [] chunk.field = "generated_code" ->
            [b EXCEPT !.generated_code = @ \o chunk.content]
      [] chunk.field = "result_commentary" ->
            [b EXCEPT !.result_commentary = @ \o chunk.content]
      [] OTHER -> b

\* the body of the collection loop
collect_chunk(b, chunk) ==
    CASE chunk.field = "initial_response" ->
            [b EXCEPT !.initial_response = chunk.content]
      [] chunk.field = "generated_code" ->
            [b EXCEPT !.generated_code = chunk.content]
      [] chunk.field = "result_commentary" ->
            [b EXCEPT !.result_commentary = chunk.content]
      [] OTHER -> b

\* _validate_response: the buffer afterwards and the value returned
validate_response(b) ==
    LET overall_result == validate_structured_response(to_dict(b))
        b1 == [b EXCEPT !.errors = @ \o overall_result.errors,
                        !.warnings = @ \o overall_result.warnings]
        code_result == validate_python_code(b1.generated_code)
        b2 == IF has_code(b1)
              THEN [b1 EXCEPT
                      !.validation_results = <<code_result>>,
                      !.generated_code =
                          IF code_result.is_valid
                             /\ code_result.cleaned_content # ""
                          THEN code_result.cleaned_content
                          ELSE @,
                      !.errors = @ \o code_result.errors,
                      !.warnings = @ \o code_result.warnings]
              ELSE b1
    IN  [buffer |-> b2, ok |-> Len(b2.errors) = 0]

\* one pass of the loop of _attempt_recovery, up to its "return True" or
\* its sleep: the buffer afterwards and whether it returned True
recovery_iteration(b, attempt) ==
    LET code_result == b.validation_results[1]
        b1 == [b EXCEPT
                 !.generated_code = code_result.cleaned_content,
                 !.warnings = @ \o <<(<<"Applied code recovery attempt",
                                        ToString(attempt)>>)>>]
        new_code_result == validate_python_code(b1.generated_code)
        kept == SelectSeq(b1.errors, LAMBDA e : ~is_code_validation(e))
        b2 == [b1 EXCEPT !.validation_results = <<new_code_result>>,
                         !.errors = kept]
    IN  IF has_code(b) /\ b.validation_results # <<>>
           /\ ~b.validation_results[1].is_valid
           /\ b.validation_results[1].cleaned_content # ""
        THEN IF new_code_result.is_valid
             THEN [buffer |-> b2, recovered |-> Len(kept) = 0]
             ELSE [buffer |-> b1, recovered |-> FALSE]
        ELSE [buffer |-> b, recovered |-> FALSE]

\* mutant: the rollback leaves the content in the buffer
rollback_response_KeepsContent(b) ==
    [b EXCEPT !.state = "rolled_back"]

\* _rollback_response, on the buffer
rollback_response(b) ==
    [b EXCEPT !.state = "rolled_back",
              !.initial_response = "",
              !.generated_code = "",
              !.result_commentary = ""]

field_complete(field, content) ==
    IF content # ""
    THEN <<[event |-> "field_complete", field |-> field, content |-> content]>>
    ELSE <<>>

\* the events _stream_validated_response yields for a buffer, in order
validated_events(b) ==
    field_complete("initial_response", b.initial_response)
    \o field_complete("generated_code", b.generated_code)
    \o field_complete("result_commentary", b.result_commentary)
    \o (IF b.warnings # <<>>
        THEN <<[event |-> "warnings", warnings |-> b.warnings]>>
        ELSE <<>>)
    \o <<[event |-> "response_complete", response |-> to_dict(b),
          execution_results |-> b.execution_results]>>

InitResponse ==
    /\ rm_pc = "idle"
    /\ buffer = NewBuffer
    /\ processing_stats = NewStats
    /\ active_buffers = {}
    /\ recovery_attempts = 0
    /\ yielded = <<>>
    /\ yielded_seen = <<>>
    /\ history = <<>>
    /\ rm_chunks = 0
    /\ last_content = [f \in Fields |-> ""]

\* "yield event" with the buffer b and the states h it has gone through
Yield(b, h, event, pc) ==
    /\ buffer' = b
    /\ history' = h
    /\ yielded' = yielded \o <<event>>
    /\ yielded_seen' = yielded_seen \o <<Len(h)>>
    /\ rm_pc' = pc

\* the validated buffer b enters _stream_validated_response, which runs to
\* its first yield
StartStreaming(b, h) ==
    Yield([b EXCEPT !.state = "streaming"], h \o <<"streaming">>,
          validated_events(b)[1], "streaming")

\* _rollback_response and the error event that follows it
RollbackAndYield(b, h, event) ==
    /\ Yield(rollback_response(b), h \o <<"rolled_back">>, event,
             "error_yielded")
    /\ processing_stats' =
          [processing_stats EXCEPT !.rollbacks_performed = @ + 1]

\* pass number attempt of the loop of _attempt_recovery: it returns True
\* and the response is streamed, or it sleeps
AttemptRecovery(b, h, attempt) ==
    \E r \in {recovery_iteration(b, attempt)} :
        /\ recovery_attempts' = attempt
        /\ IF r.recovered
           THEN StartStreaming([r.buffer EXCEPT !.state = "validated"],
                               h \o <<"validated">>)
           ELSE /\ buffer' = r.buffer
                /\ history' = h
                /\ rm_pc' = "recover"
                /\ UNCHANGED <<yielded, yielded_seen>>

\* the consumer asks for the first event: the manager counts the response,
\* creates its buffer and waits for the LLM generator
StartResponse ==
    /\ rm_pc \in {"idle", "done"}
    /\ processing_stats.total_responses < MaxResponses
    /\ processing_stats' = [processing_stats EXCEPT !.total_responses = @ + 1]
    /\ buffer' = [NewBuffer EXCEPT !.state = "collecting"]
    /\ active_buffers' = {"response_id"}
    /\ history' = <<"initializing", "collecting">>
    /\ yielded' = <<>>
    /\ yielded_seen' = <<>>
    /\ recovery_attempts' = 0
    /\ rm_chunks' = 0
    /\ last_content' = [f \in Fields |-> ""]
    /\ rm_pc' = "collect"

ProcessLlmResponse ==
    /\ StartResponse
    /\ UNCHANGED nonResponseVars

\* the collection loop takes the chunk the generator yielded
Collect(chunk) ==
    /\ rm_pc = "collect"
    /\ rm_chunks < MaxRmChunks
    /\ rm_chunks' = rm_chunks + 1
    /\ buffer' = collect_chunk(buffer, chunk)
    /\ last_content' = IF chunk.field \in Fields
                        THEN [last_content EXCEPT ![chunk.field] = chunk.content]
                        ELSE last_content
    /\ UNCHANGED <<rm_pc, processing_stats, active_buffers, recovery_attempts,
                   yielded, yielded_seen, history>>

\* the LLM generator yields a chunk
CollectChunk ==
    /\ \E chunk \in LlmChunks : Collect(chunk)
    /\ UNCHANGED nonResponseVars

\* mutant: the collected response is streamed without being validated
GeneratorEnds_Unvalidated ==
    /\ rm_pc = "collect"
    /\ StartStreaming([buffer EXCEPT !.state = "validating"],
                      history \o <<"validating">>)
    /\ UNCHANGED <<processing_stats, recovery_attempts, active_buffers,
                   rm_chunks, last_content>>
    /\ UNCHANGED nonResponseVars

\* the LLM generator is exhausted: the response is validated and either
\* streamed up to its first event or taken into recovery
GeneratorEnds ==
    /\ rm_pc = "collect"
    /\ \E v \in {validate_response([buffer EXCEPT !.state = "validating"])},
          h \in {history \o <<"validating">>} :
           IF v.ok
           THEN /\ StartStreaming([v.buffer EXCEPT !.state = "validated"],
                                  h \o <<"validated">>)
                /\ processing_stats' =
                      [processing_stats EXCEPT !.validations_passed = @ + 1]
                /\ UNCHANGED recovery_attempts
           ELSE /\ AttemptRecovery([v.buffer EXCEPT !.state = "failed"],
                                   h \o <<"failed">>, 1)
                /\ processing_stats' =
                      [processing_stats EXCEPT !.validations_failed = @ + 1]
    /\ UNCHANGED <<active_buffers, rm_chunks, last_content>>
    /\ UNCHANGED nonResponseVars

\* mutant: the recovery loop has no attempt counter to stop it
RecoverySleepReturns_NoCap ==
    /\ rm_pc = "recover"
    /\ AttemptRecovery(buffer, history, recovery_attempts + 1)
    /\ UNCHANGED <<processing_stats, active_buffers, rm_chunks, last_content>>
    /\ UNCHANGED nonResponseVars

\* asyncio.sleep(0.1) of _attempt_recovery returns: the next pass, or after
\* the last one the rollback and the error event
RecoverySleepReturns ==
    /\ rm_pc = "recover"
    /\ IF recovery_attempts < max_attempts
       THEN /\ AttemptRecovery(buffer, history, recovery_attempts + 1)
            /\ UNCHANGED processing_stats
       ELSE /\ RollbackAndYield(buffer, history,
                  [event |-> "error",
                   message |-> "Response validation failed",
                   errors |-> buffer.errors,
                   warnings |-> buffer.warnings])
            /\ UNCHANGED recovery_attempts
    /\ UNCHANGED <<active_buffers, rm_chunks, last_content>>
    /\ UNCHANGED nonResponseVars

\* mutant: the except branch rolls back without marking the buffer FAILED
GeneratorRaises_NoFailed ==
    /\ rm_pc = "collect"
    /\ RollbackAndYield(
          [buffer EXCEPT !.errors = @ \o <<(<<"Processing error:", "e">>)>>],
          history,
          [event |-> "error", message |-> "Response processing failed",
           error |-> "e"])
    /\ UNCHANGED <<active_buffers, recovery_attempts, rm_chunks, last_content>>
    /\ UNCHANGED nonResponseVars

\* the LLM generator raises: the except branch of process_llm_response
GeneratorRaises ==
    /\ rm_pc = "collect"
    /\ RollbackAndYield(
          [buffer EXCEPT !.state = "failed",
                         !.errors = @ \o <<(<<"Processing error:", "e">>)>>],
          history \o <<"failed">>,
          [event |-> "error", message |-> "Response processing failed",
           error |-> "e"])
    /\ UNCHANGED <<active_buffers, recovery_attempts, rm_chunks, last_content>>
    /\ UNCHANGED nonResponseVars

\* the consumer asks for the next event of a validated response: the next
\* event, or the response is completed and the generator finishes
ResumeStreaming ==
    /\ rm_pc = "streaming"
    /\ LET events == validated_events(buffer)
       IN  IF Len(yielded) < Len(events)
           THEN /\ Yield(buffer, history, events[Len(yielded) + 1], "streaming")
                /\ UNCHANGED <<processing_stats, active_buffers>>
           ELSE /\ buffer' = [buffer EXCEPT !.state = "completed"]
                /\ history' = history \o <<"completed">>
                /\ processing_stats' =
                      [processing_stats EXCEPT !.successful_responses = @ + 1]
                /\ active_buffers' = {}
                /\ rm_pc' = "done"
                /\ UNCHANGED <<yielded, yielded_seen>>
    /\ UNCHANGED <<recovery_attempts, rm_chunks, last_content>>
    /\ UNCHANGED nonResponseVars

\* the consumer asks for the next event after the error event: the failure
\* is counted and the generator finishes
ResumeAfterError ==
    /\ rm_pc = "error_yielded"
    /\ processing_stats' =
          [processing_stats EXCEPT !.failed_responses = @ + 1]
    /\ active_buffers' = {}
    /\ rm_pc' = "done"
    /\ UNCHANGED <<buffer, recovery_attempts, yielded, yielded_seen, history,
                   rm_chunks, last_content>>
    /\ UNCHANGED nonResponseVars

\* the consumer stops reading and the generator is closed at the yield it
\* is suspended in: only the finally block runs
CloseGenerator ==
    /\ rm_pc \in {"streaming", "error_yielded"}
    /\ active_buffers' = {}
    /\ rm_pc' = "done"
    /\ UNCHANGED <<buffer, processing_stats, recovery_attempts, yielded,
                   yielded_seen, history, rm_chunks, last_content>>

GeneratorClosed ==
    /\ CloseGenerator
    /\ UNCHANGED nonResponseVars

NextResponse ==
    \/ ProcessLlmResponse
    \/ CollectChunk
    \/ GeneratorEnds
    \/ RecoverySleepReturns
    \/ GeneratorRaises
    \/ ResumeStreaming
    \/ ResumeAfterError
    \/ GeneratorClosed


(***************************************************************************)
(* SerializationEngine: server/serialization_engine.py                     *)
(***************************************************************************)

\* bound: length of the lists, tuples, mappings and table columns given to
\* serialize_value
MaxItems == 2

\* A Python value is a record whose kind is type(value).__name__.
PyNone == [kind |-> "NoneType"]

PyStr(s) == [kind |-> "str", s |-> s]

PyInt(n) == [kind |-> "int", n |-> n]

\* a built-in float (kind "float") or a numpy.float64: NaN, an infinity, or
\* the finite value x / 10
PyFloat(kind, class, x) == [kind |-> kind, class |-> class, x |-> x]

PyList(items) == [kind |-> "list", items |-> items]

PyTuple(items) == [kind |-> "tuple", items |-> items]

\* a dict, keys in insertion order
PyDict(keys, vals) == [kind |-> "dict", keys |-> keys, vals |-> vals]

\* a pandas DataFrame with the one column 'x'; cells are the values that
\* df.iloc[idx]['x'] gives
DataFrame(cells) == [kind |-> "DataFrame", cells |-> cells]

\* a plotly figure; to_json may raise
Figure(to_json_raises) == [kind |-> "Figure", to_json_raises |-> to_json_raises]

\* any other object; its __str__ may raise
Object(str_raises) == [kind |-> "object", str_raises |-> str_raises]

\* an exception on its way out of a function
Raised == [kind |-> "raise"]

FloatKinds == {"float", "float64"}

Floats ==
    {PyFloat(k, c, 0) : k \in FloatKinds, c \in {"nan", "inf", "-inf"}}
    \cup {PyFloat(k, "finite", 15) : k \in FloatKinds}

Scalars == {PyNone, PyStr("a"), PyInt(1)} \cup Floats

Keys == <<"a", "b", "c", "d">>

SeqsUpTo(S, n) == UNION {[1..k -> S] : k \in 0..n}

\* lists, tuples, mappings and tables of scalars
Containers ==
    {PyList(items) : items \in SeqsUpTo(Scalars, MaxItems)}
    \cup {PyTuple(items) : items \in SeqsUpTo(Scalars, MaxItems)}
    \cup {PyDict(SubSeq(Keys, 1, Len(vals)), vals) :
             vals \in SeqsUpTo(Scalars, MaxItems)}
    \cup {DataFrame(cells) : cells \in SeqsUpTo(Floats, MaxItems)}

Opaque == {Figure(FALSE), Figure(TRUE), Object(FALSE), Object(TRUE)}

\* the values given to serialize_value: scalars, containers of scalars,
\* figures and other objects, and lists and mappings of one of those
Values ==
    Scalars \cup Containers \cup Opaque
    \cup {PyList(<<c>>) : c \in (Containers \cup Opaque)}
    \cup {PyDict(<<"a">>, <<c>>) : c \in (Containers \cup Opaque)}

\* the concatenation of a sequence of sequences
RECURSIVE Concat(_)
Concat(seqs) ==
    IF seqs = <<>> THEN <<>> ELSE Head(seqs) \o Concat(Tail(seqs))

IsSequenceValue(v) == v.kind \in {"list", "tuple"}

\* the elements of np.asarray(items, dtype=object): sequences of one
\* length nested in a sequence become a further dimension of the array,
\* anything else is an element
RECURSIVE array_elements(_)
array_elements(items) ==
    IF /\ items # <<>>
       /\ \A k \in 1..Len(items) :
             /\ IsSequenceValue(items[k])
             /\ Len(items[k].items) = Len(items[1].items)
    THEN Concat([k \in 1..Len(items) |-> array_elements(items[k].items)])
    ELSE items

\* pandas' null test of one element of an object array
checknull(v) ==
    \/ v.kind = "NoneType"
    \/ v.kind \in FloatKinds /\ v.class = "nan"

\* "if ... and pd.isna(value):" for a value that reaches line 65: pd.isna
\* of a list is an array of booleans, whose truth value is that of its
\* element when it has one, an error when it has several, and False or
\* an error (by the NumPy installed) when it has none; pd.isna of any
\* other of the values here is False
isna_truth(value, etr) ==
    IF value.kind # "list"
    THEN "False"
    ELSE LET elements == array_elements(value.items)
         IN  CASE Len(elements) = 0 -> IF etr THEN "raise" ELSE "False"
               [] Len(elements) = 1 ->
                     IF checknull(elements[1]) THEN "True" ELSE "False"
               [] OTHER -> "raise"

\* _serialize_float
serialize_float(value) ==
    CASE value.class = "nan" -> PyNone
      [] value.class = "inf" -> PyStr("Infinity")
      [] value.class = "-inf" -> PyStr("-Infinity")
      [] OTHER -> value

\* float(value) of a numpy float
builtin_float(value) == [value EXCEPT !.kind = "float"]

\* _serialize_plotly_figure
serialize_plotly_figure(figure) ==
    IF figure.to_json_raises
    THEN PyDict(<<"type", "error">>,
                <<PyStr("plotly_figure"), PyStr("Serialization failed: e")>>)
    ELSE PyDict(<<"type", "json", "html">>,
                <<PyStr("plotly_figure"), PyStr("{}"), PyStr("<div>")>>)

\* f"<Serialization Error: {type(value).__name__}>"
serialization_error(value) ==
    PyStr("<Serialization Error: " \o value.kind \o ">")

RECURSIVE serialize_value(_, _)

\* _serialize_dataframe: the rows of the head, each a mapping of the one
\* column to its serialized cell
serialize_dataframe(df, etr) ==
    PyDict(<<"type", "shape", "columns", "head", "dtypes">>,
           <<PyStr("dataframe"),
             PyTuple(<<PyInt(Len(df.cells)), PyInt(1)>>),
             PyList(<<PyStr("x")>>),
             PyList([idx \in 1..Len(df.cells) |->
                        PyDict(<<"x">>,
                               <<serialize_value(df.cells[idx], etr)>>)]),
             PyDict(<<"x">>, <<PyStr("dtype")>>)>>)

\* the try block of serialize_value: the value returned, or Raised
serialize_try(value, etr) ==
    IF value.kind \in {"NoneType", "str", "int", "bool"}
    THEN value
    ELSE IF value.kind = "float64"
    THEN builtin_float(value)
    ELSE IF value.kind = "float"
    THEN serialize_float(value)
    ELSE IF value.kind # "DataFrame" /\ isna_truth(value, etr) = "raise"
    THEN Raised
    ELSE IF value.kind # "DataFrame" /\ isna_truth(value, etr) = "True"
    THEN PyNone
    ELSE IF IsSequenceValue(value)
    THEN PyList([k \in 1..Len(value.items) |->
                    serialize_value(value.items[k], etr)])
    ELSE IF value.kind = "dict"
    THEN PyDict(value.keys,
                [k \in 1..Len(value.vals) |->
                    serialize_value(value.vals[k], etr)])
    ELSE IF value.kind = "DataFrame"
    THEN serialize_dataframe(value, etr)
    ELSE IF value.kind = "Figure"
    THEN serialize_plotly_figure(value)
    ELSE IF value.str_raises
    THEN Raised
    ELSE PyStr("<object>")

\* mutant: no except clause, the exception leaves serialize_value
serialize_value_NoExcept(value, etr) ==
    serialize_try(value, etr)

\* serialize_value: the try block, and the placeholder of its except clause
serialize_value(value, etr) ==
    LET r == serialize_try(value, etr)
    IN  IF r.kind = "raise" THEN serialization_error(value) ELSE r

\* f"<Unable to serialize {type(value).__name__}>"
unable_to_serialize(value) ==
    PyStr("<Unable to serialize " \o value.kind \o ">")

\* value.head().fillna("null").to_dict('records'): the rows of the head
\* with "null" for a missing cell and the Python float of any other
fillna_records(df) ==
    PyList([idx \in 1..Len(df.cells) |->
               PyDict(<<"x">>,
                      <<IF df.cells[idx].class = "nan"
                        THEN PyStr("null")
                        ELSE builtin_float(df.cells[idx])>>)])

\* CodeExecutor._serialize_value (code_executor.py): the try block, with
\* Raised for an exception, and the placeholder of its except clause.
\* A numpy float is a float for isinstance; a figure is what has to_json.
RECURSIVE executor_serialize_value(_)
executor_serialize_value(value) ==
    IF value.kind \in {"NoneType", "str", "int", "bool"}
    THEN value
    ELSE IF value.kind \in FloatKinds
    THEN serialize_float(value)
    ELSE IF IsSequenceValue(value)
    THEN PyList([k \in 1..Len(value.items) |->
                    executor_serialize_value(value.items[k])])
    ELSE IF value.kind = "dict"
    THEN PyDict(value.keys,
                [k \in 1..Len(value.vals) |->
                    executor_serialize_value(value.vals[k])])
    ELSE IF value.kind = "DataFrame"
    THEN PyDict(<<"type", "shape", "columns", "head">>,
                <<PyStr("dataframe"),
                  PyTuple(<<PyInt(Len(value.cells)), PyInt(1)>>),
                  PyList(<<PyStr("x")>>),
                  fillna_records(value)>>)
    ELSE IF value.kind = "Figure"
    THEN IF value.to_json_raises
         THEN unable_to_serialize(value)
         ELSE PyDict(<<"type", "json">>, <<PyStr("plotly_figure"), PyStr("{}")>>)
    ELSE IF value.str_raises
    THEN unable_to_serialize(value)
    ELSE PyStr("<object>")

\* sv_executor before _serialize_value was called
NotSerialized == [kind |-> "unset"]

InitSerialize ==
    /\ sv_pc = "ready"
    /\ sv_input = PyNone
    /\ sv_output = PyNone
    /\ sv_executor = NotSerialized
    /\ empty_truth_raises = FALSE

\* a caller has a value to serialize, under one of the NumPy builds
ChooseValue ==
    /\ sv_pc = "ready"
    /\ sv_pc' = "chosen"
    /\ sv_input' \in Values
    /\ empty_truth_raises' \in BOOLEAN
    /\ UNCHANGED <<sv_output, sv_executor>>
    /\ UNCHANGED nonSerializeVars

\* serialize_value(value)
SerializeValue ==
    /\ sv_pc = "chosen"
    /\ sv_output' = serialize_value(sv_input, empty_truth_raises)
    /\ sv_pc' = "done"
    /\ UNCHANGED <<sv_input, sv_executor, empty_truth_raises>>
    /\ UNCHANGED nonSerializeVars

\* _extract_results: results[var_name] = self._serialize_value(value), for
\* the value the serialization engine was given
ExecutorSerializeValue ==
    /\ sv_pc = "done"
    /\ sv_executor = NotSerialized
    /\ sv_executor' = executor_serialize_value(sv_input)
    /\ UNCHANGED <<sv_pc, sv_input, sv_output, empty_truth_raises>>
    /\ UNCHANGED nonSerializeVars

NextSerialize ==
    \/ ChooseValue
    \/ SerializeValue
    \/ ExecutorSerializeValue

(***************************************************************************)
(* CodeExecutor: server/code_executor.py, with its callers in              *)
(* server/app.py and server/app_v2.py                                      *)
(***************************************************************************)

\* bounds: statements of a generated code, requests handled, rows of the
\* uploaded table
MaxStmts == 3
MaxExecutions == 2
MaxRows == 1

\* the value the code writes into a cell, different from every uploaded one
Overwritten == 9

\* the statements generated code is made of
Statements ==
    {"import os", "os.getcwd()", "df.iloc[0, 0] = 9", "fig = px.bar(df)",
     "result = fig", "import copy; fig2 = copy.deepcopy(fig)", "result = (1",
     "result = getattr(json, 'leak', 0); json.leak = 7"}

\* a code is the sequence of its lines
Codes == UNION {[1..n -> Statements] : n \in 1..MaxStmts}

\* the tables pd.read_csv / pd.read_excel load: a column of numbers
Tables == {DataFrame([k \in 1..n |-> k]) : n \in 0..MaxRows}

\* the variable names the statements bind
Names == {"df", "copy", "fig", "fig2", "result"}

\* result_vars of _extract_results
result_vars ==
    {"result", "output", "fig", "figure", "plot", "chart", "summary", "analysis"}

Module == [kind |-> "module"]

\* an int object
IntObject(value) == [kind |-> "int", value |-> value]

\* mutant: namespace['df'] is the caller's table itself, not a copy
create_namespace_NoCopy(heap, modules) ==
    [ns |-> [name \in Names |-> IF name = "df" THEN Len(heap) ELSE 0],
     heap |-> heap, raised |-> FALSE, modules |-> modules]

\* _create_namespace, for the names above: heap holds the caller's table,
\* if there is one, and df is bound to a copy of it.  A name is bound to
\* the position of its object in the heap, 0 when it is not bound.
\* namespace.update(self.allowed_modules) gives the namespace the module
\* objects of the executor themselves: modules is the set of attributes
\* that have been set on them.
create_namespace(heap, modules) ==
    IF heap = <<>>
    THEN [ns |-> [name \in Names |-> 0], heap |-> heap, raised |-> FALSE,
          modules |-> modules]
    ELSE [ns |-> [name \in Names |-> IF name = "df" THEN Len(heap) + 1 ELSE 0],
          heap |-> Append(heap, heap[Len(heap)]),
          raised |-> FALSE, modules |-> modules]

\* "name = <new object>"
Bind(st, name, object) ==
    [st EXCEPT !.heap = Append(@, object), !.ns[name] = Len(st.heap) + 1]

Raise(st) == [st EXCEPT !.raised = TRUE]

\* exec of one statement: safe_import refuses os, a name that is not bound
\* raises NameError, an empty table has no cell to write
exec_statement(st, stmt) ==
    CASE stmt = "import os" -> Raise(st)
      [] stmt = "os.getcwd()" -> Raise(st)
      [] stmt = "df.iloc[0, 0] = 9" ->
            IF st.ns["df"] = 0 \/ st.heap[st.ns["df"]].cells = <<>>
            THEN Raise(st)
            ELSE [st EXCEPT !.heap[st.ns["df"]].cells[1] = Overwritten]
      [] stmt = "fig = px.bar(df)" ->
            IF st.ns["df"] = 0 THEN Raise(st)
            ELSE Bind(st, "fig", Figure(FALSE))
      [] stmt = "result = fig" ->
            IF st.ns["fig"] = 0 THEN Raise(st)
            ELSE [st EXCEPT !.ns["result"] = st.ns["fig"]]
      [] stmt = "import copy; fig2 = copy.deepcopy(fig)" ->
            IF st.ns["fig"] = 0 THEN Raise(Bind(st, "copy", Module))
            ELSE Bind(Bind(st, "copy", Module), "fig2", st.heap[st.ns["fig"]])
      [] stmt = "result = getattr(json, 'leak', 0); json.leak = 7" ->
            [Bind(st, "result",
                  IntObject(IF "leak" \in st.modules THEN 7 ELSE 0))
                EXCEPT !.modules = @ \cup {"leak"}]

\* exec(code, namespace): the statements in order, up to the first that
\* raises
RECURSIVE exec(_, _)
exec(code, st) ==
    IF code = <<>> \/ st.raised
    THEN st
    ELSE exec(Tail(code), exec_statement(st, Head(code)))

Bound(st, name) == st.ns[name] # 0

IsFigure(st, name) == Bound(st, name) /\ st.heap[st.ns[name]].kind = "Figure"

IsDataFrame(st, name) ==
    Bound(st, name) /\ st.heap[st.ns[name]].kind = "DataFrame"

\* _extract_results: the keys of results, each with the variable and the
\* object its value was made from
extract_results(st) ==
    {[key |-> name, name |-> name, obj |-> st.ns[name]] :
        name \in {n \in Names \cap result_vars : Bound(st, n)}}
    \cup {[key |-> "plotly_figure_" \o name, name |-> name, obj |-> st.ns[name]] :
             name \in {n \in Names : IsFigure(st, n)}}
    \cup {[key |-> "dataframe_" \o name, name |-> name, obj |-> st.ns[name]] :
             name \in {n \in Names : IsDataFrame(st, n) /\ n # "df"}}

Contains(code, stmt) == \E i \in 1..Len(code) : code[i] = stmt

\* ast.parse: of the statements above only "result = (1" is not Python
ast_parse_raises(code) == Contains(code, "result = (1")

\* ValidationEngine._validate_code_security: of its patterns only \bos\.
\* occurs in the statements above, in "os.getcwd()"
validate_code_security(code) == ~ Contains(code, "os.getcwd()")

\* ValidationEngine.validate_python_code on a code of the statements above:
\* none has a corruption indicator, and _fix_syntax_errors drops no line of
\* theirs, so that a syntax error stays and cleaned_content is the code
validate_lines(code) ==
    IF ast_parse_raises(code)
    THEN [is_valid |-> FALSE, errors |-> <<"Syntax error">>, cleaned_content |-> code]
    ELSE IF ~ validate_code_security(code)
    THEN [is_valid |-> FALSE, errors |-> <<"Dangerous operation detected">>,
          cleaned_content |-> code]
    ELSE [is_valid |-> TRUE, errors |-> <<>>, cleaned_content |-> code]

\* the value of validated_code when validation fails
NoCode == <<>>

\* _basic_code_validation: the syntax check alone
basic_code_validation(code) == IF ast_parse_raises(code) THEN NoCode ELSE code

\* _validate_and_fix_code: validated_code; importable tells whether
\* "from validation_engine import ValidationEngine" finds the module
validate_and_fix_code(code, importable) ==
    IF ~ importable
    THEN basic_code_validation(code)
    ELSE LET validation_result == validate_lines(code)
         IN  IF validation_result.is_valid
             THEN validation_result.cleaned_content
             ELSE IF validate_lines(validation_result.cleaned_content).is_valid
             THEN validation_result.cleaned_content
             ELSE NoCode

\* the lines validate_code is given on its own, besides the statements
\* above: with a denylisted operation, an allow-listed import, a filesystem
\* keyword, a network keyword, none of them
CheckedLines ==
    {"import os", "x = eval('1')", "import math", "os.remove('data.csv')",
     "import socket", "total = 1"}

\* bound: lines of a code text given to validate_code
MaxCodeLines == 3

CheckedCodes == UNION {[1..n -> CheckedLines] : n \in 1..MaxCodeLines}

\* "pattern in code_lower" for some pattern of dangerous_patterns:
\* 'import os', 'eval(' and 'getattr(' are the ones that occur in the lines
HasDangerousPattern(code) ==
    \E i \in 1..Len(code) :
        code[i] \in {"import os", "x = eval('1')",
                     "result = getattr(json, 'leak', 0); json.leak = 7"}

\* any(safe_import in code_lower for safe_import in safe_imports):
\* 'import copy' and 'import math' are the ones that occur in the lines
HasSafeImport(code) ==
    \E i \in 1..Len(code) :
        code[i] \in {"import copy; fig2 = copy.deepcopy(fig)", "import math"}

\* any(op in code_lower for op in ['remove', 'delete', 'rmdir', 'unlink'])
HasFilesystemOp(code) == Contains(code, "os.remove('data.csv')")

\* any(op in code_lower for op in ['urllib', 'requests', 'socket', 'http'])
HasNetworkOp(code) == Contains(code, "import socket")

\* validate_code, is_safe: a dangerous pattern is let through when a safe
\* import occurs anywhere in the code; the filesystem and the network
\* keywords are refused whatever else the code holds
validate_code(code) ==
    /\ ~ (HasDangerousPattern(code) /\ ~ HasSafeImport(code))
    /\ ~ HasFilesystemOp(code)
    /\ ~ HasNetworkOp(code)

\* no code text validated yet
InitValidate ==
    /\ vc_code = <<>>
    /\ vc_result = "none"

\* code_executor.validate_code(code), as POST /execute-code calls it
ValidateCode ==
    /\ part = "validate"
    /\ \E code \in CheckedCodes :
          /\ vc_code' = code
          /\ vc_result' = IF validate_code(code) THEN "True" ELSE "False"
    /\ UNCHANGED nonValidateVars

NextValidate == ValidateCode

\* ALLOWED_EXTENSIONS of the uploads a table can be loaded from, '.xls'
\* being handled as '.xlsx' is
Extensions == {".csv", ".xlsx"}

\* save_uploaded_file: the path the upload is saved at, its extension kept
UploadPath(file_ext) == "uploads/uuid" \o file_ext

\* current_file is None
NoPath == "None"

\* Path(path).suffix
suffix(path) ==
    CASE path = UploadPath(".csv") -> ".csv"
      [] path = UploadPath(".xlsx") -> ".xlsx"
      [] OTHER -> ""

\* get_current_file_info: None without a current file, else the mapping
\* with the keys below (upload_time and size_mb left out)
get_current_file_info(file, path) ==
    IF file = <<>>
    THEN [kind |-> "NoneType"]
    ELSE [kind |-> "dict",
          keys |-> {"filename", "path", "upload_time", "rows", "columns", "size_mb"},
          path |-> path,
          rows |-> Len(file[1].cells),
          columns |-> 1]

\* no request handled yet, no file uploaded
InitExecutor ==
    /\ current_file = <<>>
    /\ uploaded = <<>>
    /\ current_path = NoPath
    /\ disk = {}
    /\ uploaded_ext = NoPath
    /\ ex_path = "none"
    /\ ex_code = <<>>
    /\ engine_importable = TRUE
    /\ ex_namespace = [name \in Names |-> 0]
    /\ ex_heap = <<>>
    /\ ex_results = {}
    /\ ex_return = "none"
    /\ exec_called = FALSE
    /\ df_seen = <<>>
    /\ df_writes = 0
    /\ executions = 0
    /\ allowed_modules = {}

\* POST /upload: save_uploaded_file writes the upload under its extension
\* and set_current_file makes the table load_file_data reads from that
\* file (read_csv or read_excel, by the extension) the current file
SetCurrentFile ==
    /\ part = "executor"
    /\ ex_return = "none"
    /\ \E table \in Tables, file_ext \in Extensions :
          /\ disk' = disk \cup {UploadPath(file_ext)}
          /\ current_file' = <<table>>
          /\ current_path' = UploadPath(file_ext)
          /\ uploaded' = <<table>>
          /\ uploaded_ext' = file_ext
    /\ UNCHANGED <<ex_path, ex_code, engine_importable, ex_namespace, ex_heap,
                   ex_results, ex_return, exec_called, df_seen, df_writes,
                   executions, allowed_modules>>
    /\ UNCHANGED nonExecutorVars

\* the cell the statement "df.iloc[0, 0] = 9" writes holds the written value
Wrote(st) ==
    /\ st.ns["df"] # 0
    /\ st.heap[st.ns["df"]].cells # <<>>
    /\ st.heap[st.ns["df"]].cells[1] = Overwritten

\* the server is between two requests and has not handled them all
AwaitsRequest == ex_return = "none" /\ executions < MaxExecutions

\* execute_code(code, dataframe) for the caller path; dataframe is the
\* table of current_file, None when there is none
ExecuteCodeCall(path, code, importable) ==
    \E validated_code \in {validate_and_fix_code(code, importable)},
       namespace \in {create_namespace(current_file, allowed_modules)} :
    \E st \in {exec(validated_code, namespace)} :
        /\ executions' = executions + 1
        /\ ex_path' = path
        /\ ex_code' = code
        /\ engine_importable' = importable
        /\ IF validated_code = NoCode
           THEN /\ ex_return' = "validation_failed"
                /\ exec_called' = FALSE
                /\ ex_results' = {}
                /\ ex_namespace' = [name \in Names |-> 0]
                /\ ex_heap' = <<>>
                /\ UNCHANGED <<current_file, df_seen, df_writes,
                               allowed_modules>>
           ELSE /\ exec_called' = TRUE
                /\ df_seen' = IF current_file = <<>> THEN <<>>
                              ELSE <<namespace.heap[namespace.ns["df"]]>>
                /\ current_file' = IF current_file = <<>> THEN <<>>
                                   ELSE <<st.heap[1]>>
                /\ df_writes' = IF Wrote(st) THEN df_writes + 1 ELSE df_writes
                /\ ex_namespace' = st.ns
                /\ ex_heap' = st.heap
                /\ allowed_modules' = st.modules
                /\ IF st.raised
                   THEN ex_return' = "execution_error" /\ ex_results' = {}
                   ELSE ex_return' = "success" /\ ex_results' = extract_results(st)
        /\ UNCHANGED <<uploaded, current_path, disk, uploaded_ext>>
        /\ UNCHANGED nonExecutorVars

\* ws_endpoint of app.py, step 2: the generated code is executed as it is
WsExecuteCode ==
    /\ part = "executor"
    /\ AwaitsRequest
    /\ \E code \in Codes : ExecuteCodeCall("ws", code, TRUE)

\* POST /execute-code of app.py: validate_code, then execute_code
ExecuteCodeEndpoint ==
    /\ part = "executor"
    /\ AwaitsRequest
    /\ \E code \in Codes :
          IF validate_code(code)
          THEN ExecuteCodeCall("endpoint", code, TRUE)
          ELSE /\ executions' = executions + 1
               /\ ex_path' = "endpoint"
               /\ ex_code' = code
               /\ ex_return' = "http_400"
               /\ exec_called' = FALSE
               /\ ex_results' = {}
               /\ ex_namespace' = [name \in Names |-> 0]
               /\ ex_heap' = <<>>
               /\ UNCHANGED <<current_file, uploaded, current_path, disk,
                              uploaded_ext, engine_importable, df_seen, df_writes,
                              allowed_modules>>
               /\ UNCHANGED nonExecutorVars

\* _execute_code_safely of app_v2.py, called by the response generator for a
\* generated_code chunk; code_executor is imported as server.code_executor,
\* and whether the plain module name validation_engine is importable there
\* depends on how the server was started
ExecuteCodeSafely ==
    /\ part = "executor"
    /\ AwaitsRequest
    /\ \E code \in Codes, importable \in BOOLEAN :
          ExecuteCodeCall("pipeline", code, importable)

\* the handler returns its reply: the locals of the call are gone
RequestReturns ==
    /\ part = "executor"
    /\ ex_return # "none"
    /\ ex_path' = "none"
    /\ ex_code' = <<>>
    /\ engine_importable' = TRUE
    /\ ex_namespace' = [name \in Names |-> 0]
    /\ ex_heap' = <<>>
    /\ ex_results' = {}
    /\ ex_return' = "none"
    /\ exec_called' = FALSE
    /\ df_seen' = <<>>
    /\ UNCHANGED <<current_file, uploaded, current_path, disk, uploaded_ext,
                   df_writes,
                   executions, allowed_modules>>
    /\ UNCHANGED nonExecutorVars

NextExecutor ==
    \/ SetCurrentFile
    \/ RequestReturns
    \/ WsExecuteCode
    \/ ExecuteCodeEndpoint
    \/ ExecuteCodeSafely

(***************************************************************************)
(* RulesManager: server/rules_manager.py                                   *)
(***************************************************************************)

\* bounds: rules stored, operations of a run, lines of an imported text
MaxRules == 3
MaxRuleOps == 5
MaxImportLines == 2

\* the rule texts given to add_rule and update_rule
RuleTexts == {"use titles", " check nulls "}

\* the lines of a text given to import_rules_from_text
ImportLines == {"use titles", " check nulls ", "# a comment", "  "}

\* str.strip() of the texts and lines above
strip(text) ==
    CASE text = " check nulls " -> "check nulls"
      [] text = "  " -> ""
      [] OTHER -> text

\* line.startswith('#')
startswith_hash(line) == line = "# a comment"

\* add_rule: the rule list with the new rule appended, its id being the
\* length of the list plus one
add_rule(rs, rule_text) ==
    Append(rs, [id |-> Len(rs) + 1, text |-> strip(rule_text), active |-> TRUE])

\* the index of the first rule with that id, 0 when there is none
RECURSIVE find_rule(_, _, _)
find_rule(rs, rule_id, i) ==
    IF i > Len(rs) THEN 0
    ELSE IF rs[i].id = rule_id THEN i
    ELSE find_rule(rs, rule_id, i + 1)

\* update_rule(rule_id, text=...): the first rule with that id is updated
update_rule(rs, rule_id, rule_text) ==
    LET i == find_rule(rs, rule_id, 1)
    IN  IF i = 0 THEN rs ELSE [rs EXCEPT ![i].text = rule_text]

\* delete_rule: the first rule with that id is popped
delete_rule(rs, rule_id) ==
    LET i == find_rule(rs, rule_id, 1)
    IN  IF i = 0 THEN rs
        ELSE [k \in 1..(Len(rs) - 1) |-> IF k < i THEN rs[k] ELSE rs[k + 1]]

\* import_rules_from_text: add_rule for every line that is not blank and
\* not a comment, stripped
RECURSIVE import_rules_from_text(_, _)
import_rules_from_text(rs, lines) ==
    IF lines = <<>> THEN rs
    ELSE IF strip(Head(lines)) = "" \/ startswith_hash(strip(Head(lines)))
    THEN import_rules_from_text(rs, Tail(lines))
    ELSE import_rules_from_text(add_rule(rs, strip(Head(lines))), Tail(lines))

\* load_rules without a rules file
InitRules ==
    /\ rules = <<>>
    /\ rules_file = <<>>
    /\ rule_ops = 0

\* an operation of the rules manager ends with save_rules
RulesBecome(rs) ==
    /\ rule_ops < MaxRuleOps
    /\ Len(rs) <= MaxRules
    /\ rules' = rs
    /\ rules_file' = rs
    /\ rule_ops' = rule_ops + 1
    /\ UNCHANGED nonRulesVars

AddRule ==
    /\ part = "rules"
    /\ \E rule_text \in RuleTexts : RulesBecome(add_rule(rules, rule_text))

ImportRulesFromText ==
    /\ part = "rules"
    /\ \E n \in 1..MaxImportLines : \E lines \in [1..n -> ImportLines] :
          RulesBecome(import_rules_from_text(rules, lines))

\* update_rule saves only when it has found the rule
UpdateRule ==
    /\ part = "rules"
    /\ \E rule_id \in 1..(MaxRules + 1), rule_text \in RuleTexts :
          IF find_rule(rules, rule_id, 1) = 0
          THEN /\ rule_ops < MaxRuleOps
               /\ rule_ops' = rule_ops + 1
               /\ UNCHANGED <<rules, rules_file>>
               /\ UNCHANGED nonRulesVars
          ELSE RulesBecome(update_rule(rules, rule_id, rule_text))

\* delete_rule saves only when it has found the rule
DeleteRule ==
    /\ part = "rules"
    /\ \E rule_id \in 1..(MaxRules + 1) :
          IF find_rule(rules, rule_id, 1) = 0
          THEN /\ rule_ops < MaxRuleOps
               /\ rule_ops' = rule_ops + 1
               /\ UNCHANGED <<rules, rules_file>>
               /\ UNCHANGED nonRulesVars
          ELSE RulesBecome(delete_rule(rules, rule_id))

NextRules ==
    \/ AddRule
    \/ ImportRulesFromText
    \/ UpdateRule
    \/ DeleteRule

(***************************************************************************)
(* LMStudioClient: server/lm_studio_client.py                              *)
(***************************************************************************)

\* bound: pieces of text the service sends for one completion
MaxPieces == 3

\* The text of a completion is the sequence of the pieces it was received
\* in: the opening brace of a JSON object, a member "field": "content" with
\* the comma it needs, the closing brace, or other text.
OpenBrace == [kind |-> "open"]
CloseBrace == [kind |-> "close"]
Member(field, content) == [kind |-> "member", field |-> field, content |-> content]
OtherText(s) == [kind |-> "text", s |-> s]

Pieces ==
    {OpenBrace, CloseBrace, Member("initial_response", "Hi"),
     Member("generated_code", "x = 1"), OtherText("Hello"), OtherText(" ")}

\* what the service sends before the completion ends or the request fails
Completions == UNION {[1..n -> Pieces] : n \in 0..MaxPieces}

\* stream_completion: the pieces received, and f"Error: {str(e)}" as a last
\* one when the request or the reading of the reply raised
stream_completion(sent, raises) ==
    IF raises THEN Append(sent, OtherText("Error: e")) ELSE sent

\* extract_partial: the content of the first member of that field in the
\* text, None when the key has not appeared
NoContent == [kind |-> "NoneType"]

RECURSIVE extract_partial(_, _)
extract_partial(json_text, field) ==
    IF json_text = <<>> THEN NoContent
    ELSE IF Head(json_text).kind = "member" /\ Head(json_text).field = field
    THEN [kind |-> "str", s |-> Head(json_text).content]
    ELSE extract_partial(Tail(json_text), field)

\* the text without its white space
RECURSIVE without_space(_)
without_space(text) ==
    IF text = <<>> THEN <<>>
    ELSE IF Head(text) = OtherText(" ") THEN without_space(Tail(text))
    ELSE <<Head(text)>> \o without_space(Tail(text))

\* full_response.strip() is empty
is_blank(text) == without_space(text) = <<>>

\* json.loads raises JSONDecodeError unless the text is an object: a brace,
\* members, a brace, with white space anywhere between them
is_json_object(text) ==
    LET t == without_space(text)
    IN  /\ Len(t) >= 2
        /\ t[1] = OpenBrace
        /\ t[Len(t)] = CloseBrace
        /\ \A k \in 2..(Len(t) - 1) : t[k].kind = "member"

\* parsed[field] of json.loads: the content of the last member of the field
RECURSIVE parsed_field(_, _)
parsed_field(text, field) ==
    IF text = <<>> THEN NoContent
    ELSE LET last == text[Len(text)]
         IN  IF last.kind = "member" /\ last.field = field
             THEN [kind |-> "str", s |-> last.content]
             ELSE parsed_field(SubSeq(text, 1, Len(text) - 1), field)

Chunk(field, content) == [field |-> field, content |-> content]

FieldOrder == <<"initial_response", "generated_code", "result_commentary">>

\* the body of the loop over the completion for the fields from position k
\* on: [buffers, chunks] after it
RECURSIVE stream_fields(_, _, _, _)
stream_fields(text, buffers, out, k) ==
    IF k > Len(FieldOrder) THEN [buffers |-> buffers, chunks |-> out]
    ELSE LET fld == FieldOrder[k]
             partial == extract_partial(text, fld)
         IN  IF partial.kind = "str" /\ Len(partial.s) > Len(buffers[fld])
             THEN stream_fields(text, [buffers EXCEPT ![fld] = partial.s],
                                Append(out, Chunk(fld, partial.s)), k + 1)
             ELSE stream_fields(text, buffers, out, k + 1)

\* the final extraction: a chunk for every field of the parsed object
RECURSIVE final_chunks(_, _)
final_chunks(text, k) ==
    IF k > Len(FieldOrder) THEN <<>>
    ELSE LET content == parsed_field(text, FieldOrder[k])
         IN  (IF content.kind = "str"
              THEN <<Chunk(FieldOrder[k], content.s)>> ELSE <<>>)
             \o final_chunks(text, k + 1)

\* the three chunks yielded when nothing was produced at all
nothing_produced ==
    <<Chunk("initial_response", "No response received from Groq API"),
      Chunk("generated_code", ""),
      Chunk("result_commentary", "Unable to process request")>>

InitCompletion ==
    /\ lm_pc = "idle"
    /\ lm_stream = <<>>
    /\ full_response = <<>>
    /\ partial_buffers = [f \in Fields |-> ""]
    /\ lm_yielded = <<>>

\* generate_structured_response up to the loop over stream_completion,
\* whose request is answered or fails
GenerateStructuredResponse ==
    /\ part = "completion"
    /\ lm_pc = "idle"
    /\ \E sent \in Completions, raises \in BOOLEAN :
          lm_stream' = stream_completion(sent, raises)
    /\ lm_pc' = "stream"
    /\ UNCHANGED <<full_response, partial_buffers, lm_yielded>>
    /\ UNCHANGED nonCompletionVars

\* one pass of "async for chunk in self.stream_completion(...)"
StreamChunk ==
    /\ part = "completion"
    /\ lm_pc = "stream"
    /\ lm_stream # <<>>
    /\ LET text == Append(full_response, Head(lm_stream))
           r == stream_fields(text, partial_buffers, lm_yielded, 1)
       IN  /\ full_response' = text
           /\ partial_buffers' = r.buffers
           /\ lm_yielded' = r.chunks
    /\ lm_stream' = Tail(lm_stream)
    /\ UNCHANGED lm_pc
    /\ UNCHANGED nonCompletionVars

\* the completion has ended: the final extraction, and the three chunks of
\* "nothing was produced at all"
StreamEnds ==
    /\ part = "completion"
    /\ lm_pc = "stream"
    /\ lm_stream = <<>>
    /\ lm_yielded' =
          lm_yielded
          \o (IF is_json_object(full_response)
              THEN final_chunks(full_response, 1) ELSE <<>>)
          \o (IF /\ is_blank(full_response)
                 /\ \A f \in Fields : Len(partial_buffers[f]) = 0
              THEN nothing_produced ELSE <<>>)
    /\ lm_pc' = "done"
    /\ UNCHANGED <<lm_stream, full_response, partial_buffers>>
    /\ UNCHANGED nonCompletionVars

NextCompletion ==
    \/ GenerateStructuredResponse
    \/ StreamChunk
    \/ StreamEnds

(***************************************************************************)
(* ws_endpoint of server/app_v2.py: the response pipeline                  *)
(***************************************************************************)

\* an event on the wire: its name and whether it carries "fallback": True
Ev(name) == [event |-> name, fallback |-> FALSE]

\* _send_safe: the event is sent, or send_json raises and nothing is
Send(w, event) == IF v2_connected THEN Append(w, event) ELSE w

\* stream_fallback_response: the three fields as deltas and the end event;
\* it returns at the first send that fails
stream_fallback_response(w) ==
    IF v2_connected
    THEN w \o <<Ev("delta"), Ev("delta"), Ev("delta"),
                [event |-> "end", fallback |-> TRUE]>>
    ELSE w

\* _process_chunk: what is sent for a chunk of the processed response; the
\* StreamingState of stream_response has no field position, so that a
\* complete field is sent at once
process_chunk(chunk) ==
    CASE chunk.event = "field_complete" -> Ev("field_complete")
      [] chunk.event = "response_complete" -> Ev("end")
      [] chunk.event = "error" -> Ev("error")
      [] chunk.event = "warnings" -> Ev("warnings")
      [] OTHER -> Ev(chunk.event)

InitPipeline ==
    /\ v2_pc = "receive"
    /\ v2_connected = TRUE
    /\ v2_consumed = 0
    /\ v2_wire = <<>>
    /\ v2_messages = 0
    /\ v2_executions = <<>>
    /\ v2_success = "None"

\* receive_text returns a client message: the start event is sent and the
\* health of LM Studio is asked for
V2Receive ==
    /\ v2_pc = "receive"
    /\ v2_connected
    /\ v2_messages < MaxResponses
    /\ v2_messages' = v2_messages + 1
    /\ v2_wire' = <<Ev("start")>>
    /\ v2_pc' = "health"
    /\ v2_success' = "None"
    /\ UNCHANGED <<v2_connected, v2_consumed, v2_executions>>
    /\ UNCHANGED nonPipelineVars

\* receive_text raises WebSocketDisconnect: the handler returns
V2ReceiveRaises ==
    /\ v2_pc = "receive"
    /\ ~ v2_connected
    /\ v2_pc' = "closed"
    /\ UNCHANGED <<v2_connected, v2_consumed, v2_wire, v2_messages,
                   v2_executions, v2_success>>
    /\ UNCHANGED nonPipelineVars

\* the health check returns or raises.  LM Studio available:
\* stream_response sends stream_start and asks the processed generator for
\* its first event; not available: the fallback response is streamed.
V2HealthReturns ==
    /\ v2_pc = "health"
    /\ \E lm_available \in BOOLEAN :
          IF lm_available
          THEN /\ v2_wire' = Send(v2_wire, Ev("stream_start"))
               /\ v2_consumed' = 0
               /\ v2_pc' = "stream"
               /\ v2_executions' = <<>>
               /\ StartResponse
          ELSE /\ v2_wire' = stream_fallback_response(v2_wire)
               /\ v2_pc' = "receive"
               /\ UNCHANGED <<v2_consumed, v2_executions>>
               /\ UNCHANGED responseVars
    /\ UNCHANGED <<v2_connected, v2_messages, v2_success>>
    /\ UNCHANGED nonPipelineResponseVars

\* stream_response got an event of the processed response and gives it to
\* _process_chunk.  When the send fails, _handle_streaming_error cannot send
\* either, stream_response returns False, the generator is closed, and the
\* fallback response that ws_endpoint then streams stops at its first send.
V2ProcessChunk ==
    /\ v2_pc = "stream"
    /\ v2_consumed < Len(yielded)
    /\ v2_consumed' = v2_consumed + 1
    /\ IF v2_connected
       THEN /\ v2_wire' = Append(v2_wire, process_chunk(yielded[v2_consumed + 1]))
            /\ UNCHANGED <<v2_pc, v2_success>>
            /\ UNCHANGED responseVars
       ELSE /\ v2_wire' = stream_fallback_response(v2_wire)
            /\ v2_pc' = "receive"
            /\ v2_success' = "False"
            /\ CloseGenerator
    /\ UNCHANGED <<v2_connected, v2_messages, v2_executions>>
    /\ UNCHANGED nonPipelineResponseVars

\* mutant: stream_response returns True without the closing event
V2StreamComplete_NoEvent ==
    /\ v2_pc = "stream"
    /\ rm_pc = "done"
    /\ v2_consumed = Len(yielded)
    /\ v2_pc' = "receive"
    /\ v2_success' = "True"
    /\ UNCHANGED <<v2_connected, v2_consumed, v2_wire, v2_messages,
                   v2_executions>>
    /\ UNCHANGED nonPipelineVars

\* the processed generator is exhausted: stream_complete is sent,
\* stream_response returns True and ws_endpoint waits for the next message
V2StreamComplete ==
    /\ v2_pc = "stream"
    /\ rm_pc = "done"
    /\ v2_consumed = Len(yielded)
    /\ v2_wire' = Send(v2_wire, Ev("stream_complete"))
    /\ v2_pc' = "receive"
    /\ v2_success' = "True"
    /\ UNCHANGED <<v2_connected, v2_consumed, v2_messages, v2_executions>>
    /\ UNCHANGED nonPipelineVars

\* the client goes away
V2Disconnect ==
    /\ v2_connected
    /\ v2_messages > 0
    /\ v2_pc # "closed"
    /\ v2_connected' = FALSE
    /\ UNCHANGED <<v2_pc, v2_consumed, v2_wire, v2_messages, v2_executions,
                   v2_success>>
    /\ UNCHANGED nonPipelineVars

\* stream_response waits for the next event of the processed response
AwaitsGenerator == v2_pc = "stream" /\ v2_consumed = Len(yielded)

\* _create_response_generator passes on a chunk of the LLM client, which
\* the collection loop takes.  After a generated_code chunk that is not
\* blank the generator, asked for its next chunk, first calls
\* _execute_code_safely through the breaker of "code_executor": the code
\* is run unless the breaker refuses the call, and the chunk yielded for
\* the outcome (execution_results or execution_error) is one the
\* collection loop ignores.
CreateResponseGenerator ==
    /\ AwaitsGenerator
    /\ \E chunk \in LlmChunks :
          /\ Collect(chunk)
          /\ IF chunk.field = "generated_code" /\ strip_nonempty(chunk.content)
             THEN \E admitted \in BOOLEAN :
                     v2_executions' = IF admitted
                                      THEN Append(v2_executions, buffer'.state)
                                      ELSE v2_executions
             ELSE UNCHANGED v2_executions
    /\ UNCHANGED <<v2_pc, v2_connected, v2_consumed, v2_wire, v2_messages,
                   v2_success>>
    /\ UNCHANGED nonPipelineResponseVars

\* The generator given to process_llm_response is _create_response_generator,
\* which catches what the LLM client and the code execution raise and yields
\* chunks instead.
NextPipeline ==
    \/ V2Receive
    \/ V2ReceiveRaises
    \/ V2HealthReturns
    \/ V2ProcessChunk
    \/ V2StreamComplete
    \/ V2Disconnect
    \/ CreateResponseGenerator
    \/ AwaitsGenerator /\ GeneratorEnds
    \/ AwaitsGenerator /\ RecoverySleepReturns
    \/ AwaitsGenerator /\ ResumeStreaming
    \/ AwaitsGenerator /\ ResumeAfterError

(***************************************************************************)
(* Specifications                                                          *)
(***************************************************************************)

\* the breaker of a part that makes no calls
IdleBreaker == InitBreaker /\ config.failure_threshold = 3

\* every part but the breaker in its initial state
InitRest ==
    /\ InitStream /\ InitWs /\ InitResponse /\ InitSerialize
    /\ InitExecutor /\ InitPipeline /\ InitHealth /\ InitValidate
    /\ InitRules /\ InitCompletion

InitSpecBreaker == InitBreaker /\ InitRest /\ part = "breaker"

SpecBreaker == InitSpecBreaker /\ [][NextBreaker]_vars

SpecProtected == InitSpecBreaker /\ [][NextProtected]_vars

InitSpecStream == IdleBreaker /\ InitRest /\ part = "controller"

SpecStream == InitSpecStream /\ [][NextStream]_vars

InitSpecWs == IdleBreaker /\ InitRest /\ part = "ws"

SpecWs == InitSpecWs /\ [][NextWs]_vars

InitSpecResponse ==
    IdleBreaker /\ InitRest /\ part = "response"

SpecResponse == InitSpecResponse /\ [][NextResponse]_vars

InitSpecSerialize ==
    /\ IdleBreaker /\ InitRest
    /\ part = "serialization"

SpecSerialize == InitSpecSerialize /\ [][NextSerialize]_vars

InitSpecExecutor ==
    /\ IdleBreaker /\ InitRest
    /\ part = "executor"

SpecExecutor == InitSpecExecutor /\ [][NextExecutor]_vars

InitSpecValidate ==
    /\ IdleBreaker /\ InitRest
    /\ part = "validate"

SpecValidate == InitSpecValidate /\ [][NextValidate]_vars

InitSpecRules ==
    /\ IdleBreaker /\ InitRest
    /\ part = "rules"

SpecRules == InitSpecRules /\ [][NextRules]_vars

InitSpecCompletion ==
    /\ IdleBreaker /\ InitRest
    /\ part = "completion"

SpecCompletion == InitSpecCompletion /\ [][NextCompletion]_vars

InitSpecHealth ==
    /\ IdleBreaker /\ InitRest
    /\ part = "health"

SpecHealth == InitSpecHealth /\ [][NextHealth]_vars

InitSpecPipeline ==
    /\ IdleBreaker /\ InitRest
    /\ part = "pipeline"

SpecPipeline == InitSpecPipeline /\ [][NextPipeline]_vars

\* the two places that keep a per-field cursor: a run is one of the
\* StreamingController or one of the /ws handler
InitSpecCursor ==
    /\ IdleBreaker /\ InitRest
    /\ part \in {"controller", "ws"}

NextCursor ==
    \/ part = "controller" /\ StreamFieldIncrementally
    \/ part = "controller" /\ SendSafeReturns
    \/ part = "controller" /\ StopStream
    \/ part = "ws" /\ Receive
    \/ part = "ws" /\ Gen1Chunk
    \/ part = "ws" /\ GenRaises
    \/ part = "ws" /\ Gen1Ends
    \/ part = "ws" /\ Gen2Chunk
    \/ part = "ws" /\ Gen2Ends
    \/ part = "ws" /\ Disconnect

SpecCursor == InitSpecCursor /\ [][NextCursor]_vars


(***************************************************************************)
(* Claims about the circuit breaker                                        *)
(***************************************************************************)

StatsCounters(b) == <<b.total_requests, b.successful_requests, b.failed_requests>>

\* C3: while the breaker is CIRCUIT_OPEN and less than config.timeout has
\* elapsed since circuit_open_time, every call raises CircuitBreakerOpenError
\* without invoking the wrapped function and without changing
\* total_requests, successful_requests or failed_requests.
C3_OpenCircuitRefuses ==
    [][(/\ breaker.state = "circuit_open"
        /\ breaker.circuit_open_time # None
        /\ now - breaker.circuit_open_time < config.timeout
        /\ calls' # calls)
       => (/\ last_op' = "refused"
           /\ invoked' = invoked
           /\ inflight' = inflight
           /\ breaker'.state = "circuit_open"
           /\ StatsCounters(breaker') = StatsCounters(breaker))]_vars

\* a call was refused by an open circuit whose timeout has not elapsed
C3_Witness ==
    /\ last_op = "refused"
    /\ breaker.state = "circuit_open"
    /\ now - breaker.circuit_open_time < config.timeout

\* C4: on a fresh breaker with failure_threshold = 3, when every call so far
\* has failed, the state is FAILING after the first failure, DEGRADED after
\* the second and CIRCUIT_OPEN after the third (and not open before it).
C4_FreshBreakerLadder ==
    (/\ config.failure_threshold = 3
     /\ last_op = "failure"
     /\ inflight = 0
     /\ breaker.total_requests = breaker.failed_requests
     /\ breaker.failed_requests = breaker.consecutive_failures
     /\ breaker.consecutive_failures \in 1..3)
    => breaker.state = CASE breaker.consecutive_failures = 1 -> "failing"
                         [] breaker.consecutive_failures = 2 -> "degraded"
                         [] OTHER -> "circuit_open"

\* C5 as stated: while the breaker is RECOVERING exactly one call is allowed
\* through; every further call of that RECOVERING period is refused.
C5_ExactlyOneTrial ==
    breaker.state = "recovering" => trials <= 1

\* C5 amended: while the breaker is RECOVERING at most max_requests_half_open
\* calls are allowed through since it became RECOVERING, and a call refused
\* in RECOVERING is refused because that cap has been reached.
C5_TrialCap ==
    breaker.state = "recovering"
    => /\ trials <= max_requests_half_open
       /\ trials = breaker.half_open_requests
       /\ last_op = "refused" => trials = max_requests_half_open

\* the cap was reached and a further call was refused in RECOVERING
C5_Witness ==
    /\ breaker.state = "recovering"
    /\ last_op = "refused"
    /\ trials = max_requests_half_open
    /\ invoked = breaker.total_requests

C8_CursorAdvancesBySent ==
    sf.pc = "returned"
    => /\ streaming_state.field_positions[sf.field_name]
             = sf.current_pos + Len(sf.sent)
       /\ sf.ret => sf.sent = Suffix(sf.content, sf.current_pos)

\* the call now made or in progress repeats the field and content of the
\* call before it, which streamed the content to its end (returned True)
SecondIdenticalStream ==
    /\ sf.pc # "idle"
    /\ prev_call.ret
    /\ prev_call.field_name = sf.field_name
    /\ prev_call.content = sf.content

\* C10: streaming a field a second time with identical content on the same
\* StreamingState (the first call having streamed it to its end) emits zero
\* delta events and leaves the field's cursor and total_sent unchanged.
C10_SecondStreamSendsNothing ==
    SecondIdenticalStream
    => /\ sf.pc = "returned"
       /\ sf.ret
       /\ sf.sent = <<>>
       /\ streaming_state.field_positions[sf.field_name] = sf.current_pos
       /\ streaming_state.total_sent = sf.total0

\* a text of two chunks was streamed and then streamed again
C10_Witness ==
    /\ SecondIdenticalStream
    /\ sf.content = Text(9)
    /\ sf.current_pos = 9
    /\ streaming_state.total_sent = 9

(***************************************************************************)
(* Claims about the per-field cursors and the deltas of the /ws handler    *)
(***************************************************************************)

\* C7 as stated: for every field the cursor (field_positions of the
\* StreamingController, last_sent_len of the /ws handler) never decreases
\* and never exceeds the length of the field's current content.
C7_CursorWithinContent ==
    [][/\ \A f \in Fields :
             streaming_state'.field_positions[f] >= streaming_state.field_positions[f]
       /\ sf'.pc # "idle"
          => streaming_state'.field_positions[sf'.field_name] <= Len(sf'.content)
       /\ messages' = messages
          => \A f \in Fields : last_sent_len'[f] >= last_sent_len[f]
       /\ \A f \in Fields : last_sent_len'[f] <= Len(field_content'[f])]_vars

\* C7 amended: for every field the cursor never decreases and never exceeds
\* the length of the longest content streamed for the field so far (when a
\* later content is shorter than what was sent, the cursor stays where it
\* is, above the length of the current content).
C7_CursorMonotoneBounded ==
    [][/\ \A f \in Fields :
             /\ streaming_state'.field_positions[f] >= streaming_state.field_positions[f]
             /\ streaming_state'.field_positions[f] <= max_len'[f]
       /\ messages' = messages
          => \A f \in Fields : last_sent_len'[f] >= last_sent_len[f]
       /\ \A f \in Fields : last_sent_len'[f] <= ws_max_len'[f]]_vars

\* a content shorter than what was already sent has been streamed
C7_Witness ==
    /\ sf.pc = "returned"
    /\ sf.ret
    /\ Len(sf.content) > 0
    /\ streaming_state.field_positions[sf.field_name] > Len(sf.content)

\* the concatenation of the deltas sent for a field, in order
RECURSIVE DeltasOf(_, _)
DeltasOf(events, field) ==
    IF events = <<>>
    THEN <<>>
    ELSE LET e == Head(events)
         IN  (IF e.event = "delta" /\ e.field = field THEN e.delta ELSE <<>>)
             \o DeltasOf(Tail(events), field)

\* C9: within the handling of one client message the concatenation of the
\* deltas sent for a field is a prefix of the field's content in the final
\* end event, also when the generation stream corrects earlier content or
\* the handler switches to the fallback response after deltas were sent.
C9_DeltasPrefixOfFinal ==
    (wire # <<>> /\ wire[Len(wire)].event = "end")
    => \A f \in Fields :
          IsPrefix(DeltasOf(wire, f), wire[Len(wire)].final[f])

(***************************************************************************)
(* Claims about ResponseManager.process_llm_response                       *)
(***************************************************************************)

\* the events that carry field content
CarriesContent(event) == event.event \in {"field_complete", "response_complete"}

\* the buffer had been VALIDATED when event number k was yielded
ValidatedBefore(k) == \E i \in 1..yielded_seen[k] : history[i] = "validated"

\* C1: no field_complete or response_complete event is yielded before the
\* buffer's state has reached VALIDATED, and no event at all is yielded
\* while the buffer is COLLECTING or VALIDATING.
C1_NoContentBeforeValidated ==
    /\ \A k \in 1..Len(yielded) :
          /\ CarriesContent(yielded[k]) => ValidatedBefore(k)
          /\ history[yielded_seen[k]] \notin {"collecting", "validating"}
    /\ buffer.state \in {"collecting", "validating"} => yielded = <<>>

\* C1 witness: a response was validated and streamed to its end, the code
\* among its content
C1_Witness ==
    /\ rm_pc = "done"
    /\ buffer.state = "completed"
    /\ \E k \in 1..Len(yielded) :
          /\ yielded[k].event = "field_complete"
          /\ yielded[k].field = "generated_code"
    /\ yielded[Len(yielded)].event = "response_complete"

\* _validate_response returned False for the response
ValidationFailed ==
    \E i \in 1..(Len(history) - 1) :
        history[i] = "validating" /\ history[i + 1] = "failed"

\* ... and _attempt_recovery has returned False
RecoveryFailed ==
    /\ ValidationFailed
    /\ rm_pc \in {"error_yielded", "done"}
    /\ \A i \in 1..Len(history) : history[i] # "validated"

\* C2: when validation fails and recovery does not succeed, the three
\* fields of the buffer are cleared, its state is ROLLED_BACK, and the one
\* event yielded for the response is an error event that carries the
\* buffer's errors and warnings.
C2_RollbackYieldsOneError ==
    RecoveryFailed =>
        /\ buffer.initial_response = ""
        /\ buffer.generated_code = ""
        /\ buffer.result_commentary = ""
        /\ buffer.state = "rolled_back"
        /\ Len(yielded) = 1
        /\ yielded[1].event = "error"
        /\ yielded[1].errors = buffer.errors
        /\ yielded[1].warnings = buffer.warnings
        /\ yielded[1].errors # <<>>

\* C2 witness: a response with content in all three fields failed
\* validation and recovery, and the generator has finished
C2_Witness ==
    /\ RecoveryFailed
    /\ rm_pc = "done"
    /\ rm_chunks = MaxRmChunks
    /\ recovery_attempts = max_attempts
    /\ processing_stats.failed_responses = 1
    /\ Len(yielded[1].warnings) > 0

(***************************************************************************)
(* Claims about SerializationEngine.serialize_value                        *)
(***************************************************************************)

IsNonFiniteFloat(v) == v.kind \in FloatKinds /\ v.class # "finite"

\* a non-finite float somewhere in a serialized value
RECURSIVE ContainsNonFinite(_)
ContainsNonFinite(v) ==
    \/ IsNonFiniteFloat(v)
    \/ /\ v.kind \in {"list", "tuple"}
       /\ \E k \in 1..Len(v.items) : ContainsNonFinite(v.items[k])
    \/ /\ v.kind = "dict"
       /\ \E k \in 1..Len(v.vals) : ContainsNonFinite(v.vals[k])

\* what the claim says a float becomes
FloatAsClaimed(v, out) ==
    CASE v.class = "nan" -> out = PyNone
      [] v.class = "inf" -> out = PyStr("Infinity")
      [] v.class = "-inf" -> out = PyStr("-Infinity")
      [] OTHER -> out.kind \in FloatKinds /\ out.class = "finite" /\ out.x = v.x

\* every float of v, where the output has kept the place it is in, has
\* become what the claim says
RECURSIVE FloatsAsClaimed(_, _)
FloatsAsClaimed(v, out) ==
    CASE v.kind \in FloatKinds -> FloatAsClaimed(v, out)
      [] v.kind \in {"list", "tuple"} ->
            (out.kind = "list" /\ Len(out.items) = Len(v.items)) =>
                \A k \in 1..Len(v.items) :
                    FloatsAsClaimed(v.items[k], out.items[k])
      [] v.kind = "dict" ->
            (out.kind = "dict" /\ out.keys = v.keys) =>
                \A k \in 1..Len(v.vals) :
                    FloatsAsClaimed(v.vals[k], out.vals[k])
      [] v.kind = "DataFrame" ->
            (out.kind = "dict" /\ out.keys[1] = "type") =>
                \A idx \in 1..Len(v.cells) :
                    FloatsAsClaimed(v.cells[idx],
                                    out.vals[4].items[idx].vals[1])
      [] OTHER -> TRUE

\* C11: every float given to serialize_value, directly or in a list, a
\* mapping or a table cell, built-in or numpy, comes out as null when it is
\* NaN, as "Infinity" or "-Infinity" when it is infinite and unchanged
\* otherwise, and the output holds no non-finite float.
C11_FloatsMadeJsonSafe ==
    sv_pc = "done" =>
        /\ ~ContainsNonFinite(sv_output)
        /\ FloatsAsClaimed(sv_input, sv_output)

\* serializing the value itself raises inside serialize_value or inside the
\* serializer of its type
FailsInternally(v, etr) ==
    \/ v.kind = "object" /\ v.str_raises
    \/ v.kind = "Figure" /\ v.to_json_raises
    \/ v.kind = "list" /\ isna_truth(v, etr) = "raise"

C13_ContainersElementwise ==
    sv_pc = "done" =>
        /\ IsSequenceValue(sv_input) =>
              /\ sv_output.kind = "list"
              /\ Len(sv_output.items) = Len(sv_input.items)
              /\ \A k \in 1..Len(sv_input.items) :
                    sv_output.items[k] =
                        serialize_value(sv_input.items[k], empty_truth_raises)
        /\ sv_input.kind = "dict" =>
              /\ sv_output.kind = "dict"
              /\ sv_output.keys = sv_input.keys
              /\ \A k \in 1..Len(sv_input.vals) :
                    sv_output.vals[k] =
                        serialize_value(sv_input.vals[k], empty_truth_raises)

(***************************************************************************)
(* CodeExecutor: claims                                                    *)
(***************************************************************************)

\* C14: execute_code leaves the caller's table unchanged and binds df to a
\* private copy of it: after every request the current table is the one
\* that was there before, and the table the code found under df is the
\* table as it was uploaded, whatever earlier executions wrote into theirs.
C14_CallerTableUnchanged ==
    [][executions' = executions + 1 =>
          /\ current_file' = current_file
          /\ current_file' = uploaded'
          /\ (exec_called' /\ current_file # <<>> => df_seen' = uploaded')]_vars

\* two executions have written into df, and the second found the table as
\* uploaded
C14_Witness ==
    /\ executions = 2
    /\ df_writes = 2
    /\ ex_return = "success"
    /\ uploaded # <<>>
    /\ uploaded[1].cells # <<>>
    /\ df_seen = uploaded
    /\ current_file = uploaded

\* the entries of results that carry a figure
FigureEntries == {e \in ex_results : e.key = "plotly_figure_" \o e.name}

\* the figure objects the namespace refers to
FigureObjects ==
    {ex_namespace[n] : n \in {m \in Names : ex_namespace[m] # 0
                                 /\ ex_heap[ex_namespace[m]].kind = "Figure"}}

\* fig > figure > result > output > plot, chart, summary, analysis > others
Priority(name) ==
    CASE name = "fig" -> 1
      [] name = "figure" -> 2
      [] name = "result" -> 3
      [] name = "output" -> 4
      [] name \in {"plot", "chart", "summary", "analysis"} -> 5
      [] OTHER -> 6

\* C15: a figure object bound to several names gives exactly one figure
\* entry of results, under the name of highest priority.
C15_OneEntryPerFigure ==
    ex_return = "success" =>
        \A obj \in FigureObjects :
            /\ Cardinality({e \in FigureEntries : e.obj = obj}) = 1
            /\ \A e \in FigureEntries, n \in Names :
                  e.obj = obj /\ ex_namespace[n] = obj =>
                      Priority(e.name) <= Priority(n)

\* C16: two distinct figure objects give exactly two figure entries of
\* results, one for each.
C16_TwoFiguresTwoEntries ==
    ex_return = "success" /\ Cardinality(FigureObjects) = 2 =>
        /\ Cardinality(FigureEntries) = 2
        /\ \A obj \in FigureObjects : \E e \in FigureEntries : e.obj = obj

\* C17: a code with "import os" and no allow-listed import fails validation
\* and is not given to exec, whichever caller it came through.
C17_ImportOsNeverExecuted ==
    /\ ex_return # "none"
    /\ Contains(ex_code, "import os")
    /\ ~ Contains(ex_code, "import copy; fig2 = copy.deepcopy(fig)")
    => /\ ~ exec_called
       /\ ex_return \in {"validation_failed", "http_400"}

(***************************************************************************)
(* ResponseManager: the collection loop                                    *)
(***************************************************************************)

\* C19: while process_llm_response collects, and so when the chunk stream
\* ends, each of the three fields of the buffer is the content of the last
\* chunk taken for that field, empty when there was none; chunks of other
\* fields leave the three fields as they are.
C19_LastChunkWins ==
    rm_pc = "collect" =>
        \A f \in Fields : to_dict(buffer)[f] = last_content[f]

\* three chunks were taken, two of the fields hold the content of their
\* last chunk and the stream can end here
C19_Witness ==
    /\ rm_pc = "collect"
    /\ rm_chunks = 3
    /\ buffer.initial_response = "Analyzing data"
    /\ buffer.generated_code = "result = 1"
    /\ buffer.result_commentary = ""
    /\ last_content = to_dict(buffer)

(***************************************************************************)
(* ws_endpoint of app_v2.py: claims                                        *)
(***************************************************************************)

\* the message has been handled with the client still there, and its
\* response went through the response manager
HandledByPipeline ==
    /\ v2_pc = "receive"
    /\ v2_messages > 0
    /\ v2_connected
    /\ \E i \in 1..Len(v2_wire) : v2_wire[i].event = "stream_start"

\* C18: when the response of a message was rolled back, the client has got
\* by the end of the message a fallback response, an end event with
\* fallback set, and not an error event alone.
C18_RollbackGivesFallback ==
    HandledByPipeline /\ buffer.state = "rolled_back" =>
        \E i \in 1..Len(v2_wire) :
            v2_wire[i].event = "end" /\ v2_wire[i].fallback

\* C20: when ws_endpoint has handled a client message and the client is
\* still there, it has sent a start event and after it an end event.
C20_StartThenEnd ==
    v2_pc = "receive" /\ v2_messages > 0 /\ v2_connected =>
        /\ v2_wire # <<>>
        /\ v2_wire[1].event = "start"
        /\ \E i \in 2..Len(v2_wire) : v2_wire[i].event = "end"

(***************************************************************************)
(* More claims about the circuit breaker                                   *)
(***************************************************************************)

\* CircuitBreakerConfig(): the settings of a breaker that
\* execute_with_circuit_breaker creates for a component without one
DefaultConfig == [failure_threshold |-> 5, timeout |-> 60]

\* C21: on a breaker created with the default settings, after a first call
\* whose function succeeded and a second whose function failed (its
\* exception re-raised to the caller), the state is not CIRCUIT_OPEN.
C21_FirstFailureKeepsClosed ==
    (/\ config = DefaultConfig
     /\ calls = 2
     /\ inflight = 0
     /\ last_op = "failure"
     /\ breaker.successful_requests = 1
     /\ breaker.failed_requests = 1)
    => breaker.state # "circuit_open"

(***************************************************************************)
(* FileHandler: claims                                                     *)
(***************************************************************************)

\* C22: when an .xlsx upload has been made the current file,
\* get_current_file_info reports converted = True and the path of a file
\* with the .csv extension that exists, and the row and column counts of
\* the uploaded sheet.
C22_XlsxBecomesCsv ==
    LET file_info == get_current_file_info(current_file, current_path)
    IN  uploaded_ext = ".xlsx" =>
            /\ "converted" \in file_info.keys
            /\ suffix(file_info.path) = ".csv"
            /\ file_info.path \in disk
            /\ file_info.rows = Len(uploaded[1].cells)
            /\ file_info.columns = 1

(***************************************************************************)
(* ResponseManager: more claims                                            *)
(***************************************************************************)

\* the buffer has been in the state st during the present response
WasIn(st) == \E k \in 1..Len(history) : history[k] = st

\* C23: when validation failed for code errors alone and a pass of
\* _attempt_recovery has substituted the cleaned code and its re-validation
\* passed, then once _attempt_recovery has returned the buffer has gone
\* from FAILED to VALIDATED and is streamed, it is not rolled back.
C23_RepairedCodeIsStreamed ==
    (/\ WasIn("failed")
     /\ rm_pc # "recover"
     /\ recovery_attempts >= 1
     /\ buffer.validation_results # <<>>
     /\ buffer.validation_results[1].is_valid
     /\ \A k \in 1..Len(buffer.errors) :
           buffer.errors[k][1] \in {"Code validation:", "Syntax error",
                                    "Dangerous operation detected"})
    => /\ WasIn("validated")
       /\ buffer.state \in {"validated", "streaming", "completed"}

\* process_llm_response with a consumer that reads every event: the
\* generator is never closed at a yield
NextReading ==
    \/ ProcessLlmResponse
    \/ CollectChunk
    \/ GeneratorEnds
    \/ RecoverySleepReturns
    \/ GeneratorRaises
    \/ ResumeStreaming
    \/ ResumeAfterError

\* The chunk stream is finite, the sleep of the recovery loop returns and
\* the consumer asks for the next event: a step that can be taken is taken.
SpecReading ==
    InitSpecResponse /\ [][NextReading]_vars /\ WF_vars(NextReading)

\* C24: with a finite chunk stream and a consumer that keeps reading,
\* process_llm_response, once started, finishes with the buffer COMPLETED
\* or ROLLED_BACK, and the recovery loop never makes more than 3 passes.
C24_TerminatesInTerminalState ==
    /\ [](recovery_attempts <= max_attempts)
    /\ (rm_pc = "collect")
          ~> (rm_pc = "done" /\ buffer.state \in {"completed", "rolled_back"})

C24_Witness ==
    /\ rm_pc = "done"
    /\ buffer.state = "rolled_back"
    /\ recovery_attempts = max_attempts
    /\ WasIn("validating")

\* the edges of the state machine as the documentation draws it
ListedEdges ==
    {<<"initializing", "collecting">>, <<"collecting", "validating">>,
     <<"validating", "validated">>, <<"validating", "failed">>,
     <<"validated", "streaming">>, <<"streaming", "completed">>,
     <<"failed", "validated">>, <<"failed", "rolled_back">>}

\* every change of buffer.state so far went along an edge of the set
FollowsEdges(edges) ==
    \A k \in 1..(Len(history) - 1) : <<history[k], history[k + 1]>> \in edges

\* C25 as stated: every change of a buffer's state follows one of the
\* listed edges, on the path where the chunk stream raises too.
C25_ListedEdgesOnly ==
    FollowsEdges(ListedEdges)

\* C25 amended: every change of a buffer's state follows one of the listed
\* edges or, where the chunk stream raises, the edge COLLECTING -> FAILED that
\* the except branch takes before it rolls back.
C25_ListedEdgesOrFailure ==
    FollowsEdges(ListedEdges \cup {<<"collecting", "failed">>})

\* the chunk stream raised and the response was rolled back
C25_Witness ==
    /\ history = <<"initializing", "collecting", "failed", "rolled_back">>
    /\ rm_pc = "done"

(***************************************************************************)
(* ws_endpoint of app_v2.py: more claims                                   *)
(***************************************************************************)

\* C26: the code of a response is run at most once, only when the buffer
\* has been validated and nothing of the response has been streamed, and
\* the response_complete event of a response with code carries the
\* execution result.
C26_ExecutedOnceAfterValidation ==
    HandledByPipeline =>
        /\ Len(v2_executions) <= 1
        /\ \A k \in 1..Len(v2_executions) : v2_executions[k] = "validated"
        /\ \A k \in 1..Len(yielded) :
              yielded[k].event = "response_complete"
              /\ strip_nonempty(yielded[k].response.generated_code)
              => yielded[k].execution_results # "None"

(***************************************************************************)
(* Circuit breaker: concurrent callers                                     *)
(***************************************************************************)

\* C27: whatever the interleaving of the callers of one component, a call
\* made while the breaker is RECOVERING is admitted when fewer than
\* max_requests_half_open calls were admitted since the breaker became
\* RECOVERING and is otherwise refused without the function being invoked,
\* so that no more than max_requests_half_open calls are admitted.
C27_CapUnderInterleaving ==
    [][(calls' # calls /\ breaker.state = "recovering")
       => /\ breaker'.state = "recovering"
          /\ trials' <= max_requests_half_open
          /\ IF trials >= max_requests_half_open
             THEN /\ last_op' = "refused"
                  /\ invoked' = invoked
                  /\ inflight' = inflight
                  /\ trials' = trials
             ELSE /\ last_op' = "admitted"
                  /\ invoked' = invoked + 1
                  /\ trials' = trials + 1]_vars

\* with two trial calls in flight the cap was reached and a further caller
\* was refused
C27_Witness ==
    /\ breaker.state = "recovering"
    /\ inflight = 2
    /\ trials = max_requests_half_open
    /\ last_op = "refused"

\* C28: when a returning call takes the breaker from RECOVERING to HEALTHY,
\* max_requests_half_open trial calls of that RECOVERING period have
\* returned successfully and none of its trial calls is still in flight or
\* has failed: the first of several trial calls in flight to succeed does
\* not close the circuit.
C28_ClosedByAllTrials ==
    [][(/\ breaker.state = "recovering"
        /\ breaker'.state = "healthy"
        /\ last_op' = "success")
       => /\ trial_calls'.succeeded = max_requests_half_open
          /\ trial_calls'.inflight = 0]_vars

\* C29: when a trial call fails while the breaker is RECOVERING and neither
\* the consecutive-failure threshold nor the failure-rate threshold is
\* reached by it, consecutive_failures has gone up by one and the breaker
\* is still RECOVERING with the count of its half-open cap unchanged.
C29_FailedTrialStaysRecovering ==
    [][(/\ breaker.state = "recovering"
        /\ last_op' = "failure"
        /\ trial_calls'.inflight = trial_calls.inflight - 1
        /\ breaker'.consecutive_failures < config.failure_threshold
        /\ ~failure_rate_reached(breaker'))
       => /\ breaker'.consecutive_failures = breaker.consecutive_failures + 1
          /\ breaker'.state = "recovering"
          /\ breaker'.half_open_requests = breaker.half_open_requests]_vars

(***************************************************************************)
(* ErrorHandler.get_system_health: claims                                  *)
(***************************************************************************)

\* C30: the overall_health get_system_health reports is the state of one
\* of the registered breakers, none of which is in a worse state; it is
\* circuit_open when a breaker is, whatever the breaker's place in the
\* dictionary, and it is healthy only when every breaker is HEALTHY.
C30_WorstStateReported ==
    overall_health # "None" =>
        /\ \E name \in DOMAIN circuit_breakers :
              circuit_breakers[name] = overall_health
        /\ overall_health = "circuit_open"
           <=> \E name \in DOMAIN circuit_breakers :
                  circuit_breakers[name] = "circuit_open"
        /\ overall_health = "healthy"
           => \A name \in DOMAIN circuit_breakers :
                 circuit_breakers[name] = "healthy"

(***************************************************************************)
(* The breakers of lm_studio and code_executor: claims                     *)
(***************************************************************************)

\* C31: when a health probe or a code execution made through
\* execute_with_circuit_breaker has failed or timed out, the breaker has
\* recorded a failure: failed_requests and consecutive_failures have gone
\* up by one.
C31_FailuresAreRecorded ==
    [][(inflight' = inflight - 1
        /\ last_outcome' \in {"status_503", "timeout", "connection_error",
                             "code_raises", "validation_failed"})
       => /\ breaker'.failed_requests = breaker.failed_requests + 1
          /\ breaker'.consecutive_failures = breaker.consecutive_failures + 1
          /\ last_op' = "failure"]_vars

(***************************************************************************)
(* The /ws handler: more claims                                            *)
(***************************************************************************)

\* a replace event for the field, carrying the content, is on the wire
Replaced(field, content) ==
    \E k \in 1..Len(wire) :
        /\ wire[k].event = "replace"
        /\ wire[k].field = field
        /\ wire[k].content = content

\* C32: when the handler has sent the end event of a generated response,
\* then for every field either the deltas sent for it make up its final
\* content (what was sent before was extended by the missing suffix), or,
\* the final content being shorter or different inside the part already
\* sent, a replace event with the final content was sent before the end
\* event.
C32_ReplaceWhenNotExtended ==
    (/\ ws_pc = "receive"
     /\ wire # <<>>
     /\ wire[Len(wire)].event = "end"
     /\ wire[Len(wire)].final = field_content)
    => \A f \in Fields :
          \/ DeltasOf(wire, f) = field_content[f]
          \/ Replaced(f, field_content[f])

(***************************************************************************)
(* StreamingController.stream_response: claims                             *)
(***************************************************************************)

\* the events that close a stream
ClosesStream(event) == event.event \in {"stream_complete", "stream_error"}

\* Once stream_response has returned, the events it sent begin with
\* stream_start (the second event of the message, after start) and end
\* with the one closing event on the wire: stream_complete when it
\* returned True, stream_error when it returned False.
FramedStream ==
    v2_success # "None" =>
        /\ Len(v2_wire) >= 3
        /\ v2_wire[2].event = "stream_start"
        /\ \A k \in 1..Len(v2_wire) :
              ClosesStream(v2_wire[k]) <=> k = Len(v2_wire)
        /\ v2_wire[Len(v2_wire)].event =
              (IF v2_success = "True" THEN "stream_complete" ELSE "stream_error")

\* while stream_response runs, stream_start was the first event it sent
\* and no closing event has been sent
OpenStream ==
    v2_pc = "stream" =>
        /\ Len(v2_wire) >= 2
        /\ v2_wire[2].event = "stream_start"
        /\ \A k \in 1..Len(v2_wire) : ~ClosesStream(v2_wire[k])

FreshRun ==
    exec(validate_and_fix_code(ex_code, engine_importable),
         create_namespace(uploaded, {}))

\* C34: execute_code returns (False, error text, None) when validation
\* fails or the code raises, and an invocation sees nothing an earlier one
\* has bound: the code leaves the namespace it would leave in an executor
\* that has run nothing before.
C34_NothingOutlivesInvocation ==
    /\ ex_return \in {"validation_failed", "execution_error"} => ex_results = {}
    /\ ex_return = "success" =>
          /\ ex_namespace = FreshRun.ns
          /\ ex_heap = FreshRun.heap

\* the code holds a denylisted operation and the operation is not part of an
\* allow-listed import: of the lines, the ones with a denylisted operation
\* hold no import of the allow list
DenylistedOutsideImport(code) == HasDangerousPattern(code)

\* C35: validate_code rejects every code text with a denylisted operation
\* that is not itself part of an allow-listed import, whatever imports the
\* rest of the code holds, and every code text with a filesystem or network
\* keyword.
C35_DenylistedRejected ==
    vc_result # "none" =>
        /\ DenylistedOutsideImport(vc_code) => vc_result = "False"
        /\ HasFilesystemOp(vc_code) \/ HasNetworkOp(vc_code) => vc_result = "False"

(***************************************************************************)
(* CodeExecutor._serialize_value against SerializationEngine               *)
(***************************************************************************)

\* C36: for every value, CodeExecutor._serialize_value returns what
\* SerializationEngine.serialize_value returns for it.
C36_SameAsSerializationEngine ==
    sv_pc = "done" /\ sv_executor # NotSerialized => sv_executor = sv_output

(***************************************************************************)
(* Circuit breaker: the request counters                                   *)
(***************************************************************************)

\* successful_requests + failed_requests of the breaker
Settled(b) == b.successful_requests + b.failed_requests

C38_DistinctRuleIds ==
    \A i, j \in 1..Len(rules) : i # j => rules[i].id # rules[j].id

(***************************************************************************)
(* ResponseManager: the counters between two responses                     *)
(***************************************************************************)

\* C39: whenever no response is being processed, total_responses is
\* successful_responses + failed_responses and rollbacks_performed is
\* failed_responses.
C39_CountersBalanced ==
    rm_pc \in {"idle", "done"} =>
        /\ processing_stats.total_responses =
              processing_stats.successful_responses
              + processing_stats.failed_responses
        /\ processing_stats.rollbacks_performed =
              processing_stats.failed_responses

(***************************************************************************)
(* LMStudioClient: the chunks of a structured response                     *)
(***************************************************************************)

\* C40: when generate_structured_response has ended it has yielded at least
\* one chunk for initial_response, whatever the service sent and also when
\* the request failed.
C40_InitialResponseYielded ==
    lm_pc = "done" =>
        \E k \in 1..Len(lm_yielded) : lm_yielded[k].field = "initial_response"

====
